---- MODULE Spec2Model ----
(***************************************************************************)
(* Storage engine of mysqlite: the pager, the B+-tree page layout, the     *)
(* cursor, insert_row / select_rows and the table file (flush, load).      *)
(*                                                                         *)
(* A page is 4096 bytes.  Leaf cells start at byte 14 and are 299 bytes    *)
(* wide (4-byte key + 295-byte row); internal cells start at the same byte *)
(* 14 and are 8 bytes wide (child, key).  num_cells and num_keys share     *)
(* bytes 6..10, next_leaf and right_child share bytes 10..14.  The model   *)
(* keeps that aliasing: field n is bytes 6..10, field link is bytes        *)
(* 10..14, w is the first NumWords 32-bit words of the body (leaf cell 0's *)
(* key and the head of its value, or internal cells 0..3), rest0 is the    *)
(* remainder of leaf cell 0, and cells are leaf cells 1..12.               *)
(***************************************************************************)
EXTENDS Integers, Sequences, FiniteSets, TLC

\* ------------------------------------------------------------------ bounds
\* Keys 1..MaxKey are offered to insert_row; at most MaxInserts calls of it
\* return Ok in one run.
MaxKey == 15
MaxInserts == 16
\* Executors 1..NumExecutors share the table in the concurrent client.
NumExecutors == 2
\* The highest id offered to a table whose caller descends to the leaves.
MaxDescendKey == 36
\* The pages of a pager whose internal nodes are handed new leaves.
MaxInternalPages == 12
\* The pages of a pager whose caller asks for pages by number.
MaxCreatePages == 8

\* ------------------------------------------------------- program constants
PAGE_SIZE == 4096
TABLE_MAX_PAGES == 100
TABLESPACE_HEADER_SIZE == 16
PAGE_HEADER_SIZE == 24
INTERNAL_NODE_MAX_CELLS == 3
\* u32::MAX.  The model writes a u32 as the 32-bit two's complement number
\* with the same bits, so u32::MAX is -1 and u32 comparisons go through
\* U32Less.
INVALID_PAGE_NUM == -1
COMMON_NODE_HEADER_SIZE == 1 + 1 + 4
LEAF_NODE_HEADER_SIZE == COMMON_NODE_HEADER_SIZE + 4 + 4
LEAF_NODE_KEY_SIZE == 4
LEAF_NODE_SPACE_FOR_CELLS == PAGE_SIZE - LEAF_NODE_HEADER_SIZE
INTERNAL_NODE_CELL_SIZE == 4 + 4
INT_SIZE == 8
USERNAME_SIZE == 32
EMAIL_SIZE == 255

NodeLeaf == 0
NodeInternal == 1

\* Unsigned comparison and wrapping +1 / -1 of u32 values.
U32Less(a, b) == IF (a < 0) = (b < 0) THEN a < b ELSE b < 0

U32Inc(a) == IF a = 2147483647 THEN -2147483647 - 1 ELSE a + 1

U32Dec(a) == IF a = -2147483647 - 1 THEN 2147483647 ELSE a - 1

\* TableSchema::get_row_size for SCHEMA (id INT, username VARCHAR(32),
\* email VARCHAR(255)).
get_row_size == INT_SIZE + USERNAME_SIZE + EMAIL_SIZE

\* Node::new: the leaf geometry derived from the row size.
leaf_node_cell_size == LEAF_NODE_KEY_SIZE + get_row_size
leaf_node_max_cells == LEAF_NODE_SPACE_FOR_CELLS \div leaf_node_cell_size
\* A variant of leaf_node_right_split_count that rounds down without the
\* new cell.
leaf_node_right_split_count_low == leaf_node_max_cells \div 2

leaf_node_right_split_count == (leaf_node_max_cells + 1) \div 2
leaf_node_left_split_count == (leaf_node_max_cells + 1) - leaf_node_right_split_count

\* Words of the page body that the model keeps individually: internal cells
\* 0..INTERNAL_NODE_MAX_CELLS (child, key each), which all lie inside leaf
\* cell 0.
NumWords == 2 * (INTERNAL_NODE_MAX_CELLS + 1)
ValWords == NumWords - 1

\* ------------------------------------------------------------------ errors
NoErr == [kind |-> "Ok", msg |-> ""]
ErrDuplicate == [kind |-> "Storage", msg |-> "Duplicate key"]
ErrPageNotFound == [kind |-> "Storage", msg |-> "Memory page not found"]
ErrLock == [kind |-> "LockTable", msg |-> "Failed to lock the node"]
ErrCellIndex == [kind |-> "Storage", msg |-> "Cell index exceeds max_cells"]
ErrChildIndex == [kind |-> "Storage", msg |-> "Child index exceeds num_keys"]
ErrCellKeyIndex == [kind |-> "Storage", msg |-> "Cell index exceeds num_keys"]
ErrInvalidChild == [kind |-> "Storage", msg |-> "Child is invalid page number"]
ErrOffset == [kind |-> "Storage", msg |-> "Offset exceeds buffer size"]
ErrNodeType == [kind |-> "Storage", msg |-> "Invalid node type"]
ErrEncoding == [kind |-> "Encoding", msg |-> "Failed to decode INT"]
ErrIo == [kind |-> "Io", msg |-> "failed to fill whole buffer"]

IsOk(e) == e.kind = "Ok"

\* ------------------------------------------------ bincode integer encoding
\* bincode's standard configuration writes integers as varints: one byte
\* below 251, marker 251 + u16, marker 252 + u32, marker 253 + u64.
ZigZag(v) == IF v >= 0 THEN 2 * v ELSE -2 * v - 1

UnZigZag(u) == IF u % 2 = 0 THEN u \div 2 ELSE -((u + 1) \div 2)

LeBytes(u, nbytes) == [i \in 1..nbytes |-> (u \div (256 ^ (i - 1))) % 256]

\* The integers of the model stay below 2^31, so marker 253 is never
\* written.
VarintEncode(u) ==
  IF u < 251 THEN <<u>>
  ELSE IF u < 65536 THEN <<251>> \o LeBytes(u, 2)
  ELSE <<252>> \o LeBytes(u, 4)

\* Reads one varint from the front of bytes; len is the number of bytes it
\* used, 0 when the decoder fails: the input is too short for the marker
\* (marker 253 needs nine bytes, more than the 8-byte INT column has, and
\* is no u32) or the marker is none of an integer.
VarintDecode(bytes) ==
  IF Len(bytes) = 0 THEN [len |-> 0, val |-> 0]
  ELSE IF bytes[1] < 251 THEN [len |-> 1, val |-> bytes[1]]
  ELSE IF bytes[1] = 251 /\ Len(bytes) >= 3
    THEN [len |-> 3, val |-> bytes[2] + 256 * bytes[3]]
  ELSE IF bytes[1] = 252 /\ Len(bytes) >= 5
    THEN [len |-> 5,
          val |-> bytes[2] + 256 * bytes[3] + 65536 * bytes[4] + 16777216 * bytes[5]]
  ELSE [len |-> 0, val |-> 0]

ZeroBytes(nbytes) == [i \in 1..nbytes |-> 0]

Pad(bytes, nbytes) == bytes \o ZeroBytes(nbytes - Len(bytes))

WordOf(bytes, i) ==
  bytes[4 * i + 1] + 256 * bytes[4 * i + 2] + 65536 * bytes[4 * i + 3]
  + 16777216 * bytes[4 * i + 4]

\* ------------------------------------------------------------- row values
\* A row value is the 295 bytes of an encoded row: w holds its first
\* ValWords 32-bit words (the 8 bytes of the INT column, then the head of
\* username), tail stands for the remaining bytes.
ZeroTail == 0

ZeroValue == [w |-> [i \in 1..ValWords |-> 0], tail |-> ZeroTail]

ZeroCell == [key |-> 0, val |-> ZeroValue]

\* ColumnValue::to_fixed_bytes for Int: the varint of the zigzag value in a
\* zeroed 8-byte buffer; values whose varint needs 9 bytes do not fit.
int_to_fixed_bytes(v) ==
  LET enc == VarintEncode(ZigZag(v))
  IN IF Len(enc) > INT_SIZE THEN [err |-> ErrEncoding, bytes |-> ZeroBytes(INT_SIZE)]
     ELSE [err |-> NoErr, bytes |-> Pad(enc, INT_SIZE)]

\* ColumnType::from_fixed_bytes for INT.
int_from_fixed_bytes(bytes) ==
  LET d == VarintDecode(bytes)
  IN IF d.len = 0 THEN [err |-> ErrEncoding, val |-> 0]
     ELSE [err |-> NoErr, val |-> UnZigZag(d.val)]

\* A row as the executor hands it over: the INT primary key id, the head of
\* the username column (its first 4 * (ValWords - 2) bytes as 32-bit words)
\* and the rest of the text columns, which the model identifies by a token.
NoName == [i \in 1..(ValWords - 2) |-> 0]

Row(id, username, text) == [id |-> id, username |-> username, text |-> text]

\* Row::get_id: the i64 primary value cast to u32 (the low 32 bits, which
\* for the 32-bit integers of the model is the number itself).
get_id(row) == row.id

\* encode_row: the INT column first, the text columns zero padded behind it.
encode_row(row) ==
  LET b == int_to_fixed_bytes(row.id)
  IN [err |-> b.err,
      val |-> [w |-> [i \in 1..ValWords |->
                        IF i <= 2 THEN WordOf(b.bytes, i - 1) ELSE row.username[i - 2]],
               tail |-> row.text]]

\* decode_row: the INT column is decoded from the first 8 bytes, the text
\* columns are the remaining bytes.
decode_row(val) ==
  LET d == int_from_fixed_bytes(LeBytes(val.w[1], 4) \o LeBytes(val.w[2], 4))
  IN [err |-> d.err,
      row |-> [id |-> d.val, username |-> SubSeq(val.w, 3, ValWords), text |-> val.tail]]

\* ------------------------------------------------------------------- nodes
\* A freshly zeroed page buffer.
ZeroPage ==
  [node_type |-> 0, is_root |-> 0, parent |-> 0, n |-> 0, link |-> 0,
   w |-> [i \in 1..NumWords |-> 0], rest0 |-> ZeroTail,
   cells |-> [i \in 1..(leaf_node_max_cells - 1) |-> ZeroCell]]

\* Node::get_node_type: byte 0 is 0 for a leaf and 1 for an internal node.
get_node_type(node) ==
  IF node.node_type \in {NodeLeaf, NodeInternal}
  THEN [err |-> NoErr, val |-> node.node_type]
  ELSE [err |-> ErrNodeType, val |-> node.node_type]

\* Node::is_node_root: byte 1 equals 1.
is_node_root(node) == node.is_root = 1

\* Node::leaf_node_cell for an index the bounds check accepts.
leaf_node_cell(node, i) ==
  IF i = 0
  THEN [key |-> node.w[1],
        val |-> [w |-> SubSeq(node.w, 2, NumWords), tail |-> node.rest0]]
  ELSE node.cells[i]

\* Node::get_leaf_node_cell_offset: the bounds check of every leaf cell
\* access.
leaf_cell_index_ok(i) == i >= 0 /\ i < leaf_node_max_cells

\* Node::leaf_node_cell_mut followed by copy_from_slice of a whole cell.
set_leaf_node_cell(node, i, cell) ==
  IF i = 0
  THEN [node EXCEPT !.w = <<cell.key>> \o cell.val.w, !.rest0 = cell.val.tail]
  ELSE [node EXCEPT !.cells[i] = cell]

leaf_node_key(node, i) == leaf_node_cell(node, i).key

leaf_node_value(node, i) == leaf_node_cell(node, i).val

set_leaf_node_key(node, i, key) ==
  set_leaf_node_cell(node, i, [key |-> key, val |-> leaf_node_value(node, i)])

set_leaf_node_value(node, i, val) ==
  set_leaf_node_cell(node, i, [key |-> leaf_node_key(node, i), val |-> val])

\* Node::internal_node_cell / slice_at: an internal cell lies in the page
\* when its 8 bytes end at or before PAGE_SIZE.
internal_cell_in_page(j) ==
  j >= 0 /\ LEAF_NODE_HEADER_SIZE + j * INTERNAL_NODE_CELL_SIZE + INTERNAL_NODE_CELL_SIZE <= PAGE_SIZE

\* Node::internal_node_key.
internal_node_key(node, j) == node.w[2 * j + 2]

\* The child word of internal cell j (Node::internal_node_cell, first 4 bytes).
internal_node_cell_child(node, j) == node.w[2 * j + 1]

\* Node::set_internal_node_key.
set_internal_node_key(node, j, key) == [node EXCEPT !.w[2 * j + 2] = key]

\* Node::internal_node_child: child_num == num_keys addresses right_child;
\* INVALID_PAGE_NUM is never handed out.
internal_node_child(node, child_num) ==
  IF U32Less(node.n, child_num) THEN [err |-> ErrChildIndex, val |-> 0]
  ELSE LET child == IF child_num = node.n THEN node.link
                    ELSE internal_node_cell_child(node, child_num)
       IN IF child = INVALID_PAGE_NUM THEN [err |-> ErrInvalidChild, val |-> child]
          ELSE [err |-> NoErr, val |-> child]

\* Node::internal_node_child_mut followed by copy_from_slice of a page number.
set_internal_node_child(node, cell_num, child) ==
  IF U32Less(node.n, cell_num) THEN [err |-> ErrCellKeyIndex, node |-> node]
  ELSE IF cell_num = node.n THEN [err |-> NoErr, node |-> [node EXCEPT !.link = child]]
  ELSE [err |-> NoErr, node |-> [node EXCEPT !.w[2 * cell_num + 1] = child]]

\* The binary search with a strict comparison: a key equal to key[mid] goes
\* to the right of it.
RECURSIVE find_child_loop_strict(_, _, _, _)
find_child_loop_strict(node, key, min, max) ==
  IF min < max
  THEN LET mid == (min + max) \div 2
       IN IF key < internal_node_key(node, mid)
          THEN find_child_loop_strict(node, key, min, mid)
          ELSE find_child_loop_strict(node, key, mid + 1, max)
  ELSE min

\* Node::internal_node_find_child: binary search for the first index whose
\* key is >= key.
RECURSIVE find_child_loop(_, _, _, _)
find_child_loop(node, key, min, max) ==
  IF min < max
  THEN LET mid == (min + max) \div 2
       IN IF key <= internal_node_key(node, mid)
          THEN find_child_loop(node, key, min, mid)
          ELSE find_child_loop(node, key, mid + 1, max)
  ELSE min

internal_node_find_child(node, key) == find_child_loop(node, key, 0, node.n)

\* Node::update_internal_node_key.
update_internal_node_key(node, old_key, new_key) ==
  LET old_child_index == internal_node_find_child(node, old_key)
  IN IF internal_cell_in_page(old_child_index)
     THEN [err |-> NoErr, node |-> set_internal_node_key(node, old_child_index, new_key)]
     ELSE [err |-> ErrOffset, node |-> node]

\* Node::get_node_max_key: the last key of the node itself.  With no cell
\* the index num - 1 wraps (or the debug build panics); either way the call
\* does not return a key.
node_max_key_err(node) ==
  IF ~IsOk(get_node_type(node).err) THEN ErrNodeType
  ELSE IF node.node_type = NodeInternal
    THEN (IF node.n >= 1 /\ internal_cell_in_page(node.n - 1) THEN NoErr ELSE ErrOffset)
  ELSE (IF node.n >= 1 /\ leaf_cell_index_ok(node.n - 1) THEN NoErr ELSE ErrCellIndex)

node_max_key(node) ==
  IF node.node_type = NodeInternal THEN internal_node_key(node, node.n - 1)
  ELSE leaf_node_key(node, node.n - 1)

\* A variant of initialize_leaf_node that marks the page as a root.
initialize_leaf_node_rooted(node) ==
  [node EXCEPT !.node_type = NodeLeaf, !.is_root = 1, !.n = 0, !.link = 0]

\* initialize_leaf_node.
initialize_leaf_node(node) ==
  [node EXCEPT !.node_type = NodeLeaf, !.is_root = 0, !.n = 0, !.link = 0]

\* initialize_internal_node.
initialize_internal_node(node) ==
  [node EXCEPT !.node_type = NodeInternal, !.is_root = 0, !.n = 0,
               !.link = INVALID_PAGE_NUM]

\* ------------------------------------------------------------------- pager
\* Page number p is element p + 1 of the pager's vector.
PageAt(pages, p) == pages[p + 1]

SetPage(pages, p, node) == [pages EXCEPT ![p + 1] = node]

\* Pager::try_create: a page number at or past the end appends one leaf
\* page; a push into the full vector is dropped and Ok is returned anyway.
try_create(pages, page_num) ==
  IF page_num >= Len(pages)
  THEN LET node == [ZeroPage EXCEPT !.node_type = NodeLeaf, !.n = 0,
                                    !.is_root = IF Len(pages) = 0 THEN 1 ELSE 0]
       IN IF Len(pages) < TABLE_MAX_PAGES THEN Append(pages, node) ELSE pages
  ELSE pages

\* A variant of Pager::get that locks the mutex of a page without looking
\* whether it is held.
get_reentrant(pages, page_num, held) ==
  IF page_num < 0 \/ page_num >= Len(pages) THEN ErrPageNotFound ELSE NoErr

\* Pager::get: the page must exist and its mutex must be free; held is the
\* set of pages whose guards are alive at the call.
get(pages, page_num, held) ==
  IF page_num < 0 \/ page_num >= Len(pages) THEN ErrPageNotFound
  ELSE IF page_num \in held THEN ErrLock
  ELSE NoErr

\* A pager that hands out the number of its last page again.
get_unused_page_num_last(pages) == Len(pages) - 1

\* Pager::get_unused_page_num.
get_unused_page_num(pages) == Len(pages)

\* Pager::get_node_max_key: the last key of a leaf, or the maximum of the
\* right child's subtree; every level keeps its guard while it descends.
RECURSIVE get_node_max_key(_, _, _)
get_node_max_key(pages, node, held) ==
  IF ~IsOk(get_node_type(node).err) THEN [err |-> ErrNodeType, val |-> 0]
  ELSE IF node.node_type = NodeLeaf
    THEN (IF node.n >= 1 /\ leaf_cell_index_ok(node.n - 1)
          THEN [err |-> NoErr, val |-> leaf_node_key(node, node.n - 1)]
          ELSE [err |-> ErrCellIndex, val |-> 0])
  ELSE LET e == get(pages, node.link, held)
       IN IF ~IsOk(e) THEN [err |-> e, val |-> 0]
          ELSE get_node_max_key(pages, PageAt(pages, node.link), held \cup {node.link})

\* Pager::table_n_recs: the cells of all leaf pages.
RECURSIVE table_n_recs_from(_, _)
table_n_recs_from(pages, i) ==
  IF i > Len(pages) THEN 0
  ELSE (IF pages[i].node_type = NodeLeaf THEN pages[i].n ELSE 0)
       + table_n_recs_from(pages, i + 1)

table_n_recs(pages) == table_n_recs_from(pages, 1)

\* ------------------------------------------------------------------ cursor
ErrGetPage == [kind |-> "Storage", msg |-> "Failed to get page"]

\* Cursor::leaf_node_find, the binary search over the cells of the page.
RECURSIVE leaf_find_loop(_, _, _, _)
leaf_find_loop(node, key, min_index, one_past_max_index) ==
  IF one_past_max_index /= min_index
  THEN LET index == (min_index + one_past_max_index) \div 2
       IN IF ~leaf_cell_index_ok(index) THEN [err |-> ErrCellIndex, cell_num |-> 0]
          ELSE IF key = leaf_node_key(node, index) THEN [err |-> NoErr, cell_num |-> index]
          ELSE IF U32Less(key, leaf_node_key(node, index))
            THEN leaf_find_loop(node, key, min_index, index)
          ELSE leaf_find_loop(node, key, index + 1, one_past_max_index)
  ELSE [err |-> NoErr, cell_num |-> min_index]

\* Cursor::leaf_node_find: the position of key in page page_num, read as a
\* leaf.
cursor_leaf_node_find(pages, page_num, key) ==
  IF ~IsOk(get(pages, page_num, {}))
  THEN [err |-> ErrGetPage, page_num |-> page_num, cell_num |-> 0, end_of_table |-> FALSE]
  ELSE LET f == leaf_find_loop(PageAt(pages, page_num), key, 0, PageAt(pages, page_num).n)
       IN [err |-> f.err, page_num |-> page_num, cell_num |-> f.cell_num,
           end_of_table |-> FALSE]

\* A variant of Cursor::find that always answers the first cell of the root
\* page.
cursor_find_front(pages, root_page_num, key) ==
  [err |-> NoErr, page_num |-> root_page_num, cell_num |-> 0, end_of_table |-> FALSE]

\* Cursor::find: searches the root page.
cursor_find(pages, root_page_num, key) == cursor_leaf_node_find(pages, root_page_num, key)

\* A variant of Cursor::start that never reports the end of the table.
cursor_start_open(pages, root_page_num) ==
  [err |-> NoErr, page_num |-> root_page_num, cell_num |-> 0, end_of_table |-> FALSE]

\* Cursor::start: cell 0 of the root page, at the end when it has no cell.
cursor_start(pages, root_page_num) ==
  IF ~IsOk(get(pages, root_page_num, {}))
  THEN [err |-> ErrGetPage, page_num |-> root_page_num, cell_num |-> 0,
        end_of_table |-> TRUE]
  ELSE [err |-> NoErr, page_num |-> root_page_num, cell_num |-> 0,
        end_of_table |-> (PageAt(pages, root_page_num).n = 0)]

\* Cursor::advance: the next cell of the same page, at the end past its last
\* cell.
cursor_advance(pages, cursor) ==
  IF ~IsOk(get(pages, cursor.page_num, {}))
  THEN [cursor EXCEPT !.err = ErrGetPage]
  ELSE [cursor EXCEPT !.cell_num = cursor.cell_num + 1,
                      !.end_of_table =
                         IF cursor.cell_num + 1 >= PageAt(pages, cursor.page_num).n
                         THEN TRUE ELSE cursor.end_of_table]

\* Cursor::read_value.
cursor_read_value(pages, cursor) ==
  IF ~IsOk(get(pages, cursor.page_num, {})) THEN [err |-> ErrGetPage, val |-> ZeroValue]
  ELSE IF ~leaf_cell_index_ok(cursor.cell_num) THEN [err |-> ErrCellIndex, val |-> ZeroValue]
  ELSE [err |-> NoErr, val |-> leaf_node_value(PageAt(pages, cursor.page_num), cursor.cell_num)]

\* ------------------------------------------------------------- create root
\* create_new_root: the old root is copied to a new left page and the root
\* page becomes an internal node over the left page and right_child_page_num.
\* The writes made before an error stay in the pages.
create_new_root(pages, root_page_num, right_child_page_num) ==
  LET left_child_page_num == get_unused_page_num(pages)
      p1 == try_create(try_create(pages, right_child_page_num), left_child_page_num)
      e_root == get(p1, root_page_num, {})
      e_right == get(p1, right_child_page_num, {root_page_num})
      e_left == get(p1, left_child_page_num, {root_page_num, right_child_page_num})
  IN IF ~IsOk(e_root) THEN [pages |-> p1, err |-> e_root]
     ELSE IF ~IsOk(e_right) THEN [pages |-> p1, err |-> e_right]
     ELSE IF ~IsOk(e_left) THEN [pages |-> p1, err |-> e_left]
     ELSE
       LET root0 == PageAt(p1, root_page_num)
           left1 == [root0 EXCEPT !.is_root = 0]
           root1 == [initialize_internal_node(root0) EXCEPT !.is_root = 1, !.n = 1]
           c0 == set_internal_node_child(root1, 0, left_child_page_num)
           p2 == SetPage(SetPage(p1, left_child_page_num, left1), root_page_num, c0.node)
           m == get_node_max_key(p2, left1,
                                 {root_page_num, right_child_page_num, left_child_page_num})
       IN IF ~IsOk(c0.err) THEN [pages |-> SetPage(SetPage(p1, left_child_page_num, left1),
                                                   root_page_num, root1),
                                 err |-> c0.err]
          ELSE IF ~IsOk(m.err) THEN [pages |-> p2, err |-> m.err]
          ELSE
            LET root2 == [set_internal_node_key(c0.node, 0, m.val)
                            EXCEPT !.link = right_child_page_num]
                left2 == [left1 EXCEPT !.parent = root_page_num]
                right2 == [PageAt(p2, right_child_page_num) EXCEPT !.parent = root_page_num]
            IN [pages |-> SetPage(SetPage(SetPage(p2, root_page_num, root2),
                                          left_child_page_num, left2),
                                  right_child_page_num, right2),
                err |-> NoErr]

\* --------------------------------------------------------- internal nodes
\* internal_node_split_and_insert, the loop that detaches the upper cells of
\* the node being split: for i from i down to lo, record child i and drop
\* one key from the running count current_num_keys.
RECURSIVE detach_children(_, _, _, _, _)
detach_children(node, i, lo, current_num_keys, moved) ==
  IF i < lo
  THEN [err |-> NoErr, node |-> node, current_num_keys |-> current_num_keys,
        moved |-> moved]
  ELSE LET c == internal_node_child(node, i)
       IN IF ~IsOk(c.err)
          THEN [err |-> c.err, node |-> node, current_num_keys |-> current_num_keys,
                moved |-> moved]
          ELSE detach_children([node EXCEPT !.n = U32Dec(current_num_keys)], i - 1, lo,
                               U32Dec(current_num_keys), Append(moved, c.val))

\* internal_node_insert, the shift that makes room at index: cells
\* index + 1 ..= original_num_keys take the cell before them.
shift_internal_cells(node, index, original_num_keys) ==
  [node EXCEPT !.w = [x \in 1..NumWords |->
                        LET j == (x - 1) \div 2
                        IN IF j >= index + 1 /\ j <= original_num_keys
                           THEN node.w[x - 2] ELSE node.w[x]]]

RECURSIVE internal_node_insert(_, _, _, _)
RECURSIVE internal_node_split_and_insert(_, _, _, _)
RECURSIVE insert_moved_children(_, _, _, _, _)

\* internal_node_split_and_insert, the loop that inserts the detached
\* children into the new node and re-parents them.
insert_moved_children(pages, root_page_num, new_page_num, moved, k) ==
  IF k > Len(moved) THEN [pages |-> pages, err |-> NoErr]
  ELSE LET r == internal_node_insert(pages, root_page_num, new_page_num, moved[k])
       IN IF ~IsOk(r.err) THEN r
          ELSE IF ~IsOk(get(r.pages, moved[k], {}))
            THEN [pages |-> r.pages, err |-> get(r.pages, moved[k], {})]
          ELSE insert_moved_children(
                 SetPage(r.pages, moved[k],
                         [PageAt(r.pages, moved[k]) EXCEPT !.parent = new_page_num]),
                 root_page_num, new_page_num, moved, k + 1)

\* internal_node_split_and_insert from "Split the old node and move
\* keys/children" to the end of that block.
split_move_children(pages, root_page_num, old_page_num, new_page_num, old_num_keys, right_child_page_num) ==
  LET e_old == get(pages, old_page_num, {})
      e_cur == get(pages, right_child_page_num, {old_page_num})
  IN IF ~IsOk(e_old) THEN [pages |-> pages, err |-> e_old]
     ELSE IF ~IsOk(e_cur) THEN [pages |-> pages, err |-> e_cur]
     ELSE
       LET p1 == SetPage(pages, right_child_page_num,
                         [PageAt(pages, right_child_page_num) EXCEPT !.parent = new_page_num])
           old1 == [PageAt(p1, old_page_num) EXCEPT !.link = INVALID_PAGE_NUM]
           d == detach_children(old1, INTERNAL_NODE_MAX_CELLS - 1,
                                INTERNAL_NODE_MAX_CELLS \div 2 + 1, old_num_keys, <<>>)
       IN IF ~IsOk(d.err) THEN [pages |-> SetPage(p1, old_page_num, d.node), err |-> d.err]
          ELSE
            LET nr == internal_node_child(d.node, U32Dec(d.current_num_keys))
            IN IF ~IsOk(nr.err)
               THEN [pages |-> SetPage(p1, old_page_num, d.node), err |-> nr.err]
               ELSE insert_moved_children(
                      SetPage(p1, old_page_num,
                              [d.node EXCEPT !.link = nr.val,
                                             !.n = U32Dec(d.current_num_keys)]),
                      root_page_num, new_page_num, d.moved, 1)

\* internal_node_split_and_insert from "Compute max_after_split" to the end.
split_finish(pages, root_page_num, old_page_num, new_page_num, child_page_num, parent_id, old_max, child_max, splitting_root) ==
  LET e_old == get(pages, old_page_num, {})
      mas == get_node_max_key(pages, PageAt(pages, old_page_num), {old_page_num})
  IN IF ~IsOk(e_old) THEN [pages |-> pages, err |-> e_old]
     ELSE IF ~IsOk(mas.err) THEN [pages |-> pages, err |-> mas.err]
     ELSE
       LET destination_page_num == IF child_max < mas.val THEN old_page_num ELSE new_page_num
           \* Insert the child
           r == internal_node_insert(pages, root_page_num, destination_page_num,
                                     child_page_num)
       IN IF ~IsOk(r.err) THEN r
          ELSE IF ~IsOk(get(r.pages, child_page_num, {}))
            THEN [pages |-> r.pages, err |-> get(r.pages, child_page_num, {})]
          ELSE
            LET p1 == SetPage(r.pages, child_page_num,
                        [PageAt(r.pages, child_page_num) EXCEPT !.parent = destination_page_num])
                \* Update parent key and handle root splitting
                e_old2 == get(p1, old_page_num, {})
                e_parent == get(p1, parent_id, {old_page_num})
                m2 == get_node_max_key(p1, PageAt(p1, old_page_num), {old_page_num, parent_id})
            IN IF ~IsOk(e_old2) THEN [pages |-> p1, err |-> e_old2]
               ELSE IF ~IsOk(e_parent) THEN [pages |-> p1, err |-> e_parent]
               ELSE IF ~IsOk(m2.err) THEN [pages |-> p1, err |-> m2.err]
               ELSE
                 LET u == update_internal_node_key(PageAt(p1, parent_id), old_max, m2.val)
                     p2 == SetPage(p1, parent_id, u.node)
                 IN IF ~IsOk(u.err) THEN [pages |-> p1, err |-> u.err]
                    ELSE IF ~splitting_root THEN [pages |-> p2, err |-> NoErr]
                    ELSE IF ~IsOk(get(p2, old_page_num, {}))
                      THEN [pages |-> p2, err |-> get(p2, old_page_num, {})]
                    ELSE
                      LET parent_page_num == PageAt(p2, old_page_num).parent
                          r2 == internal_node_insert(p2, root_page_num, parent_page_num,
                                                     new_page_num)
                      IN IF ~IsOk(r2.err) THEN r2
                         ELSE IF ~IsOk(get(r2.pages, new_page_num, {}))
                           THEN [pages |-> r2.pages, err |-> get(r2.pages, new_page_num, {})]
                         ELSE [pages |-> SetPage(r2.pages, new_page_num,
                                          [PageAt(r2.pages, new_page_num)
                                             EXCEPT !.parent = parent_page_num]),
                               err |-> NoErr]

\* The parent as internal_node_insert holds it when it tests whether the node
\* is full: num_keys already counts the key that is being added.
count_new_key(parent) == [parent EXCEPT !.n = U32Inc(parent.n)]

\* internal_node_insert: adds the child/key pair for child_page_num to the
\* node parent_page_num.  num_keys is incremented before the node is found
\* to be full.
internal_node_insert(pages, root_page_num, parent_page_num, child_page_num) ==
  LET e_parent == get(pages, parent_page_num, {})
      e_child == get(pages, child_page_num, {parent_page_num})
  IN IF ~IsOk(e_parent) THEN [pages |-> pages, err |-> e_parent]
     ELSE IF ~IsOk(e_child) THEN [pages |-> pages, err |-> e_child]
     ELSE
       LET parent0 == PageAt(pages, parent_page_num)
           cm == get_node_max_key(pages, PageAt(pages, child_page_num),
                                  {parent_page_num, child_page_num})
       IN IF ~IsOk(cm.err) THEN [pages |-> pages, err |-> cm.err]
          ELSE
            LET child_max_key == cm.val
                index == internal_node_find_child(parent0, child_max_key)
                original_num_keys == parent0.n
                parent1 == count_new_key(parent0)
                p1 == SetPage(pages, parent_page_num, parent1)
                right_child_page_num == parent1.link
            IN IF original_num_keys >= INTERNAL_NODE_MAX_CELLS
               THEN internal_node_split_and_insert(p1, root_page_num, parent_page_num,
                                                   child_page_num)
               ELSE IF right_child_page_num = INVALID_PAGE_NUM
                 THEN [pages |-> SetPage(p1, parent_page_num,
                                         [parent1 EXCEPT !.link = child_page_num]),
                       err |-> NoErr]
               ELSE
                 LET e_right == get(p1, right_child_page_num,
                                    {parent_page_num, child_page_num})
                     rm == get_node_max_key(p1, PageAt(p1, right_child_page_num),
                             {parent_page_num, child_page_num, right_child_page_num})
                 IN IF ~IsOk(e_right) THEN [pages |-> p1, err |-> e_right]
                    ELSE IF ~IsOk(rm.err) THEN [pages |-> p1, err |-> rm.err]
                    ELSE IF child_max_key > rm.val
                      THEN \* Replace right child
                        LET c == set_internal_node_child(parent1, original_num_keys,
                                                         right_child_page_num)
                        IN IF ~IsOk(c.err) THEN [pages |-> p1, err |-> c.err]
                           ELSE [pages |-> SetPage(p1, parent_page_num,
                                   [set_internal_node_key(c.node, original_num_keys, rm.val)
                                      EXCEPT !.link = child_page_num]),
                                 err |-> NoErr]
                    ELSE \* Make room for the new cell
                      LET shifted == shift_internal_cells(parent1, index, original_num_keys)
                          c == set_internal_node_child(shifted, index, child_page_num)
                      IN IF ~IsOk(c.err)
                         THEN [pages |-> SetPage(p1, parent_page_num, shifted), err |-> c.err]
                         ELSE [pages |-> SetPage(p1, parent_page_num,
                                 set_internal_node_key(c.node, index, child_max_key)),
                               err |-> NoErr]

\* internal_node_split_and_insert: splits the full node parent_page_num and
\* inserts child_page_num into one of the halves.  The sibling page number
\* is taken from get_unused_page_num; create_new_root (root case) or
\* Pager::get (other nodes) is the first to touch it.
internal_node_split_and_insert(pages, root_page_num, parent_page_num, child_page_num) ==
  LET old_page_num == parent_page_num
      e_old == get(pages, old_page_num, {})
      e_child == get(pages, child_page_num, {old_page_num})
  IN IF ~IsOk(e_old) THEN [pages |-> pages, err |-> e_old]
     ELSE IF ~IsOk(e_child) THEN [pages |-> pages, err |-> e_child]
     ELSE
       LET old0 == PageAt(pages, old_page_num)
           om == get_node_max_key(pages, old0, {old_page_num, child_page_num})
           cm == get_node_max_key(pages, PageAt(pages, child_page_num),
                                  {old_page_num, child_page_num})
           splitting_root == is_node_root(old0)
           new_page_num == get_unused_page_num(pages)
       IN IF ~IsOk(om.err) THEN [pages |-> pages, err |-> om.err]
          ELSE IF ~IsOk(cm.err) THEN [pages |-> pages, err |-> cm.err]
          ELSE
            \* Initialize the parent node
            LET a == IF splitting_root
                     THEN create_new_root(pages, root_page_num, new_page_num)
                     ELSE IF ~IsOk(get(pages, new_page_num, {}))
                       THEN [pages |-> pages, err |-> get(pages, new_page_num, {})]
                     ELSE [pages |-> SetPage(pages, new_page_num,
                                       initialize_internal_node(PageAt(pages, new_page_num))),
                           err |-> NoErr]
                parent_id == IF splitting_root THEN root_page_num ELSE old0.parent
            IN IF ~IsOk(a.err) THEN a
               ELSE
                 LET b == split_move_children(a.pages, root_page_num, old_page_num,
                                              new_page_num, old0.n, old0.link)
                 IN IF ~IsOk(b.err) THEN b
                    ELSE split_finish(b.pages, root_page_num, old_page_num, new_page_num,
                                      child_page_num, parent_id, om.val, cm.val,
                                      splitting_root)

\* -------------------------------------------------------------- leaf split
\* The loop of leaf_node_split_and_insert with the new cell left out: the
\* position of the cursor takes a copy of an old cell.
RECURSIVE split_cells_dropping(_, _, _, _, _, _, _)
split_cells_dropping(old_node, new_node, old, i, cell_num, row_id, row_bin) ==
  IF i < 0 THEN [old_node |-> old_node, new_node |-> new_node]
  ELSE LET dest_cell == i % leaf_node_left_split_count
           cell == IF i > cell_num THEN leaf_node_cell(old, i - 1)
                   ELSE IF i = leaf_node_max_cells THEN leaf_node_cell(old, i - 1)
                   ELSE leaf_node_cell(old, i)
       IN IF i >= leaf_node_left_split_count
          THEN split_cells_dropping(old_node, set_leaf_node_cell(new_node, dest_cell, cell),
                                    old, i - 1, cell_num, row_id, row_bin)
          ELSE split_cells_dropping(set_leaf_node_cell(old_node, dest_cell, cell), new_node,
                                    old, i - 1, cell_num, row_id, row_bin)

\* leaf_node_split_and_insert, the loop over the max_cells + 1 positions of
\* the old cells plus the new one, from the highest position down; old is
\* the clone of the old node taken before the loop.
RECURSIVE split_cells(_, _, _, _, _, _, _)
split_cells(old_node, new_node, old, i, cell_num, row_id, row_bin) ==
  IF i < 0 THEN [old_node |-> old_node, new_node |-> new_node]
  ELSE LET dest_cell == i % leaf_node_left_split_count
           cell == IF i = cell_num THEN [key |-> row_id, val |-> row_bin]
                   ELSE IF i > cell_num THEN leaf_node_cell(old, i - 1)
                   ELSE leaf_node_cell(old, i)
       IN IF i >= leaf_node_left_split_count
          THEN split_cells(old_node, set_leaf_node_cell(new_node, dest_cell, cell), old,
                           i - 1, cell_num, row_id, row_bin)
          ELSE split_cells(set_leaf_node_cell(old_node, dest_cell, cell), new_node, old,
                           i - 1, cell_num, row_id, row_bin)

\* leaf_node_split_and_insert: a new page takes the upper half of the cells
\* of the full page under the cursor, then the parent is updated or a new
\* root is created.
leaf_node_split_and_insert(pages, root_page_num, cursor, row_id, row_bin) ==
  LET new_page_num == get_unused_page_num(pages)
      p1 == try_create(pages, new_page_num)
      e_old == get(p1, cursor.page_num, {})
      e_max == node_max_key_err(PageAt(p1, cursor.page_num))
      e_new == get(p1, new_page_num, {cursor.page_num})
  IN IF ~IsOk(e_old) THEN [pages |-> p1, err |-> e_old]
     ELSE IF ~IsOk(e_max) THEN [pages |-> p1, err |-> e_max]
     ELSE IF ~IsOk(e_new) THEN [pages |-> p1, err |-> e_new]
     ELSE
       LET old0 == PageAt(p1, cursor.page_num)
           new1 == [initialize_leaf_node(PageAt(p1, new_page_num))
                      EXCEPT !.parent = old0.parent, !.link = old0.link]
           old1 == [old0 EXCEPT !.link = new_page_num]
           sp == split_cells(old1, new1, old1, leaf_node_max_cells, cursor.cell_num,
                             row_id, row_bin)
           old2 == [sp.old_node EXCEPT !.n = leaf_node_left_split_count]
           new2 == [sp.new_node EXCEPT !.n = leaf_node_right_split_count]
           p2 == SetPage(SetPage(p1, cursor.page_num, old2), new_page_num, new2)
       IN IF is_node_root(old2)
          THEN create_new_root(p2, root_page_num, new_page_num)
          ELSE
            LET parent_page_num == old2.parent
                e_newmax == node_max_key_err(old2)
                e_parent == get(p2, parent_page_num, {})
            IN IF ~IsOk(e_newmax) THEN [pages |-> p2, err |-> e_newmax]
               ELSE IF ~IsOk(e_parent) THEN [pages |-> p2, err |-> e_parent]
               ELSE
                 LET u == update_internal_node_key(PageAt(p2, parent_page_num),
                                                   node_max_key(old0), node_max_key(old2))
                 IN IF ~IsOk(u.err) THEN [pages |-> p2, err |-> u.err]
                    ELSE internal_node_insert(SetPage(p2, parent_page_num, u.node),
                                              root_page_num, parent_page_num, new_page_num)

\* ------------------------------------------------------------- insert_row
\* insert_row, the loop that makes room for the new cell: cells
\* cell_num + 1 ..= num_cells take the cell before them.
RECURSIVE shift_leaf_cells(_, _, _)
shift_leaf_cells(node, i, cell_num) ==
  IF i < cell_num + 1 THEN node
  ELSE shift_leaf_cells(set_leaf_node_cell(node, i, leaf_node_cell(node, i - 1)),
                        i - 1, cell_num)

\* A variant of the duplicate return in which num_cells was already counted
\* up when the key is found.
reject_duplicate_counted(pages, cursor) ==
  [pages |-> SetPage(pages, cursor.page_num,
                     [PageAt(pages, cursor.page_num) EXCEPT !.n = @ + 1]),
   err |-> ErrDuplicate]

\* insert_row, the return taken when the cell under the cursor already holds
\* the key: nothing has been written yet.
reject_duplicate(pages, cursor) == [pages |-> pages, err |-> ErrDuplicate]

\* insert_row from the cursor on: rejects a key found under the cursor,
\* splits a full page and otherwise shifts the cells and stores the row.
insert_row_at(pages, root_page_num, row, cursor) ==
  LET row_id == get_id(row)
      enc == encode_row(row)
  IN IF ~IsOk(enc.err) THEN [pages |-> pages, err |-> enc.err]
     ELSE IF ~IsOk(cursor.err) THEN [pages |-> pages, err |-> cursor.err]
     ELSE IF ~IsOk(get(pages, cursor.page_num, {}))
       THEN [pages |-> pages, err |-> get(pages, cursor.page_num, {})]
     ELSE
       LET node == PageAt(pages, cursor.page_num)
           num_cells == node.n
       IN IF cursor.cell_num < num_cells /\ ~leaf_cell_index_ok(cursor.cell_num)
          THEN [pages |-> pages, err |-> ErrCellIndex]
          ELSE IF cursor.cell_num < num_cells /\ leaf_node_key(node, cursor.cell_num) = row_id
            THEN reject_duplicate(pages, cursor)
          ELSE IF num_cells >= leaf_node_max_cells
            THEN leaf_node_split_and_insert(pages, root_page_num, cursor, row_id, enc.val)
          ELSE
            LET shifted == IF cursor.cell_num < num_cells
                           THEN shift_leaf_cells(node, num_cells, cursor.cell_num)
                           ELSE node
                counted == [shifted EXCEPT !.n = num_cells + 1]
            IN [pages |-> SetPage(pages, cursor.page_num,
                            set_leaf_node_value(
                              set_leaf_node_key(counted, cursor.cell_num, row_id),
                              cursor.cell_num, enc.val)),
                err |-> NoErr]

\* insert_row: finds the position of the key with Cursor::find and inserts
\* the row there.
insert_row(pages, root_page_num, row) ==
  insert_row_at(pages, root_page_num, row, cursor_find(pages, root_page_num, get_id(row)))

\* The leaf a descent from page_num reaches for key: at an internal node the
\* child that internal_node_find_child selects.  A child that cannot be read
\* ends the descent where it is.
RECURSIVE find_leaf(_, _, _, _)
find_leaf(pages, page_num, key, fuel) ==
  IF fuel = 0 \/ ~IsOk(get(pages, page_num, {})) THEN page_num
  ELSE IF PageAt(pages, page_num).node_type # NodeInternal THEN page_num
  ELSE LET node == PageAt(pages, page_num)
           c == internal_node_child(node, internal_node_find_child(node, key))
       IN IF ~IsOk(c.err) THEN page_num
          ELSE find_leaf(pages, c.val, key, fuel - 1)

\* A caller that descends to the leaf itself: Cursor::leaf_node_find on the
\* leaf of the key, then the steps of insert_row from the cursor on.  This
\* is the only way into the split of a leaf that is not the root and into
\* internal_node_insert.
insert_row_descending(pages, root_page_num, row) ==
  insert_row_at(pages, root_page_num, row,
                cursor_leaf_node_find(pages,
                                      find_leaf(pages, root_page_num, get_id(row), Len(pages)),
                                      get_id(row)))

\* insert_row part of the way through: a split has only created its new
\* page (Pager::try_create at the top of leaf_node_split_and_insert); any
\* other insert has shifted the cells and counted the new one
\* (set_leaf_node_num_cells) but not yet written its key and value.  A call
\* that returns an error before these points has written nothing.
insert_row_begin(pages, root_page_num, row) ==
  LET row_id == get_id(row)
      enc == encode_row(row)
      cursor == cursor_find(pages, root_page_num, row_id)
  IN IF ~IsOk(enc.err) \/ ~IsOk(cursor.err) \/ ~IsOk(get(pages, cursor.page_num, {}))
     THEN pages
     ELSE
       LET node == PageAt(pages, cursor.page_num)
           num_cells == node.n
       IN IF cursor.cell_num < num_cells /\ ~leaf_cell_index_ok(cursor.cell_num)
          THEN pages
          ELSE IF cursor.cell_num < num_cells /\ leaf_node_key(node, cursor.cell_num) = row_id
            THEN pages
          ELSE IF num_cells >= leaf_node_max_cells
            THEN try_create(pages, get_unused_page_num(pages))
          ELSE
            LET shifted == IF cursor.cell_num < num_cells
                           THEN shift_leaf_cells(node, num_cells, cursor.cell_num)
                           ELSE node
            IN SetPage(pages, cursor.page_num, [shifted EXCEPT !.n = num_cells + 1])

\* ------------------------------------------------------------ select_rows
\* select_rows: decodes the cell under the cursor and advances until the
\* cursor is at the end of the table.
RECURSIVE select_loop(_, _, _)
select_loop(pages, cursor, rows) ==
  IF cursor.end_of_table THEN [err |-> NoErr, rows |-> rows]
  ELSE LET v == cursor_read_value(pages, cursor)
           d == decode_row(v.val)
           c2 == cursor_advance(pages, cursor)
       IN IF ~IsOk(v.err) THEN [err |-> v.err, rows |-> rows]
          ELSE IF ~IsOk(d.err) THEN [err |-> d.err, rows |-> rows]
          ELSE IF ~IsOk(c2.err) THEN [err |-> c2.err, rows |-> Append(rows, d.row)]
          ELSE select_loop(pages, c2, Append(rows, d.row))

select_rows(pages, root_page_num) ==
  LET cursor == cursor_start(pages, root_page_num)
  IN IF ~IsOk(cursor.err) THEN [err |-> cursor.err, rows |-> <<>>]
     ELSE select_loop(pages, cursor, <<>>)

\* -------------------------------------------------------------- table file
\* A variant of encode_header whose frame is four bytes wider.
encode_header_wide(fields, frame) ==
  LET RECURSIVE enc(_)
      enc(i) == IF i > Len(fields) THEN <<>> ELSE VarintEncode(fields[i]) \o enc(i + 1)
  IN [err |-> NoErr, bytes |-> Pad(enc(1), frame + 4)]

\* encode_header: the bincode bytes of the fields, zero padded to the frame.
encode_header(fields, frame) ==
  LET RECURSIVE enc(_)
      enc(i) == IF i > Len(fields) THEN <<>> ELSE VarintEncode(fields[i]) \o enc(i + 1)
  IN IF Len(enc(1)) > frame THEN [err |-> ErrEncoding, bytes |-> ZeroBytes(frame)]
     ELSE [err |-> NoErr, bytes |-> Pad(enc(1), frame)]

\* decode_header: reads nfields integers from the front of the frame.
RECURSIVE decode_header(_, _)
decode_header(bytes, nfields) ==
  IF nfields = 0 THEN [err |-> NoErr, fields |-> <<>>]
  ELSE LET d == VarintDecode(bytes)
       IN IF d.len = 0 THEN [err |-> ErrEncoding, fields |-> <<>>]
          ELSE LET rest == decode_header(SubSeq(bytes, d.len + 1, Len(bytes)), nfields - 1)
               IN [err |-> rest.err, fields |-> <<d.val>> \o rest.fields]

\* The file of a table that was created and never flushed.
EmptyFile == [header |-> <<>>, frames |-> <<>>]

\* Table::flush: the tablespace header (table_n_recs, page_first,
\* root_page_num), then for every page a zero page header and the page.
\* The file is opened without truncation: frames past the pager's last page
\* stay as they were.
flush(pages, root_page_num, file) ==
  LET th == encode_header(<<table_n_recs(pages), 0, root_page_num>>, TABLESPACE_HEADER_SIZE)
      ph == encode_header(<<0, 0, 0, 0, 0, 0>>, PAGE_HEADER_SIZE)
  IN IF ~IsOk(th.err) THEN [err |-> th.err, file |-> file]
     ELSE IF ~IsOk(ph.err) /\ Len(pages) > 0
       THEN [err |-> ph.err, file |-> [file EXCEPT !.header = th.bytes]]
     ELSE [err |-> NoErr,
           file |-> [header |-> th.bytes,
                     frames |-> [i \in 1..(IF Len(pages) > Len(file.frames) THEN Len(pages)
                                           ELSE Len(file.frames)) |->
                                   IF i <= Len(pages)
                                   THEN [page_header |-> ph.bytes, body |-> pages[i]]
                                   ELSE file.frames[i]]]]

\* Pager::push: a page past TABLE_MAX_PAGES is dropped.
push(pages, node) == IF Len(pages) < TABLE_MAX_PAGES THEN Append(pages, node) ELSE pages

\* A variant of the read loop that stops one frame before the end of the
\* file.
RECURSIVE load_frames_short(_, _, _)
load_frames_short(frames, i, pages) ==
  IF i >= Len(frames) THEN [err |-> NoErr, pages |-> pages]
  ELSE load_frames_short(frames, i + 1, Append(pages, frames[i].body))

\* load_table: reads the tablespace header, then page header and page until
\* the end of the file.
RECURSIVE load_frames(_, _, _)
load_frames(frames, i, pages) ==
  IF i > Len(frames) THEN [err |-> NoErr, pages |-> pages]
  ELSE LET h == decode_header(frames[i].page_header, 6)
       IN IF ~IsOk(h.err) THEN [err |-> h.err, pages |-> pages]
          ELSE load_frames(frames, i + 1, push(pages, frames[i].body))

load_table(file) ==
  IF Len(file.header) < TABLESPACE_HEADER_SIZE
  THEN [err |-> ErrIo, pages |-> <<>>, root_page_num |-> 0]
  ELSE LET th == decode_header(file.header, 3)
           fr == load_frames(file.frames, 1, <<>>)
       IN IF ~IsOk(th.err) THEN [err |-> th.err, pages |-> <<>>, root_page_num |-> 0]
          ELSE IF ~IsOk(fr.err) THEN [err |-> fr.err, pages |-> <<>>, root_page_num |-> 0]
          ELSE [err |-> NoErr, pages |-> fr.pages, root_page_num |-> th.fields[3]]

\* create_table: a pager holding page 0 as an empty root leaf, root page 0.
create_table == [pages |-> try_create(<<>>, 0), root_page_num |-> 0]

\* ------------------------------------------------- row codec, byte by byte
\* The codec at the width of the program.  An INT value is an i64, written
\* here as the 8 bytes of its two's complement, least significant first; a
\* VARCHAR value is the Vec<u8> of the column value; an encoded row is the
\* sequence of its row_size bytes.
VARCHAR_MAXSIZE == 2048

ErrEncodeInt == [kind |-> "Encoding", msg |-> "Failed to encode INT"]
ErrVarcharLength == [kind |-> "Schema", msg |-> "Varchar exceeds max length"]
ErrRowSize == [kind |-> "Schema", msg |-> "Encoded row size mismatch"]
\* buffer[..s.len()] with s longer than the buffer: the slice index panics.
ErrSlicePanic == [kind |-> "Panic", msg |-> "range end index out of range for slice"]

Complement(bytes) == [i \in 1..Len(bytes) |-> 255 - bytes[i]]

AllZero(bytes, from) == \A i \in from..Len(bytes) : bytes[i] = 0

\* bincode's zigzag of an i64: (v << 1) ^ (v >> 63).
zigzag_i64(v) ==
  LET shifted == [i \in 1..8 |->
                    ((2 * v[i]) % 256) + (IF i = 1 THEN 0 ELSE v[i - 1] \div 128)]
  IN IF v[8] >= 128 THEN Complement(shifted) ELSE shifted

\* Its inverse on a u64: (u >> 1) ^ -(u & 1).
unzigzag_u64(u) ==
  LET shifted == [i \in 1..8 |->
                    (u[i] \div 2) + (IF i = 8 THEN 0 ELSE (u[i + 1] % 2) * 128)]
  IN IF u[1] % 2 = 1 THEN Complement(shifted) ELSE shifted

\* bincode's varint of a u64: one byte below 251, else marker 251 + u16,
\* 252 + u32 or 253 + u64.
varint_encode_u64(u) ==
  IF u[1] < 251 /\ AllZero(u, 2) THEN <<u[1]>>
  ELSE IF AllZero(u, 3) THEN <<251>> \o SubSeq(u, 1, 2)
  ELSE IF AllZero(u, 5) THEN <<252>> \o SubSeq(u, 1, 4)
  ELSE <<253>> \o u

\* Reads a u64 varint from the front of bytes; bytes behind it are ignored.
\* Markers 254 (u128) and 255 are no u64, and a marker whose payload is cut
\* short fails.
varint_decode_u64(bytes) ==
  IF Len(bytes) = 0 THEN [ok |-> FALSE, val |-> ZeroBytes(8)]
  ELSE IF bytes[1] < 251 THEN [ok |-> TRUE, val |-> Pad(<<bytes[1]>>, 8)]
  ELSE IF bytes[1] = 251 /\ Len(bytes) >= 3
    THEN [ok |-> TRUE, val |-> Pad(SubSeq(bytes, 2, 3), 8)]
  ELSE IF bytes[1] = 252 /\ Len(bytes) >= 5
    THEN [ok |-> TRUE, val |-> Pad(SubSeq(bytes, 2, 5), 8)]
  ELSE IF bytes[1] = 253 /\ Len(bytes) >= 9
    THEN [ok |-> TRUE, val |-> SubSeq(bytes, 2, 9)]
  ELSE [ok |-> FALSE, val |-> ZeroBytes(8)]

\* ColumnValue::to_fixed_bytes for Int: encode_into_slice into a zeroed
\* buffer of max_size bytes fails when the varint does not fit.
int_column_to_fixed_bytes(v, max_size) ==
  LET enc == varint_encode_u64(zigzag_i64(v))
  IN IF Len(enc) > max_size THEN [err |-> ErrEncodeInt, bytes |-> <<>>]
     ELSE [err |-> NoErr, bytes |-> Pad(enc, max_size)]

\* ColumnType::from_fixed_bytes for INT.
int_column_from_fixed_bytes(buffer) ==
  LET d == varint_decode_u64(buffer)
  IN IF ~d.ok THEN [err |-> ErrEncoding, val |-> <<>>]
     ELSE [err |-> NoErr, val |-> unzigzag_u64(d.val)]

\* ColumnValue::to_fixed_bytes for VarChar: the bytes at the front of a
\* zeroed buffer of max_size bytes.
varchar_to_fixed_bytes(s, max_size) ==
  IF Len(s) > VARCHAR_MAXSIZE THEN [err |-> ErrVarcharLength, bytes |-> <<>>]
  ELSE IF Len(s) > max_size THEN [err |-> ErrSlicePanic, bytes |-> <<>>]
  ELSE [err |-> NoErr, bytes |-> Pad(s, max_size)]

\* String::from_utf8_lossy for buffers of ASCII bytes and bytes that no
\* UTF-8 text contains (255): a buffer that is valid UTF-8 is borrowed as
\* it is, otherwise each invalid byte becomes U+FFFD, the three bytes
\* EF BF BD.
utf8_lossy(bytes) ==
  LET invalid(i) == Cardinality({j \in 1..i : bytes[j] >= 128})
      start(i) == i + 2 * invalid(i - 1)
      width(i) == IF bytes[i] < 128 THEN 1 ELSE 3
  IN IF invalid(Len(bytes)) = 0 THEN bytes
     ELSE [k \in 1..(Len(bytes) + 2 * invalid(Len(bytes))) |->
             LET i == CHOOSE i \in 1..Len(bytes) : start(i) <= k /\ k < start(i) + width(i)
             IN IF bytes[i] < 128 THEN bytes[i] ELSE <<239, 191, 189>>[k - start(i) + 1]]

\* trim_end_matches('\0').
trim_end_zeros(bytes) ==
  LET nonzero == {i \in 1..Len(bytes) : bytes[i] # 0}
  IN IF nonzero = {} THEN <<>>
     ELSE SubSeq(bytes, 1, CHOOSE i \in nonzero : \A j \in nonzero : j <= i)

\* ColumnType::from_fixed_bytes for VARCHAR.
varchar_from_fixed_bytes(buffer) == trim_end_zeros(utf8_lossy(buffer))

\* build_row for a VARCHAR(len) column: the text cut to len bytes at the
\* front of len zero bytes.
build_varchar(text, len) ==
  Pad(SubSeq(text, 1, IF Len(text) < len THEN Len(text) ELSE len), len)

EmptyRowBytes == [id |-> <<>>, username |-> <<>>, email |-> <<>>]

\* encode_row for SCHEMA: the columns in schema order, each in its fixed
\* size; the first column that fails ends the call.
encode_row_bytes(row) ==
  LET a == int_column_to_fixed_bytes(row.id, INT_SIZE)
      b == varchar_to_fixed_bytes(row.username, USERNAME_SIZE)
      c == varchar_to_fixed_bytes(row.email, EMAIL_SIZE)
  IN IF ~IsOk(a.err) THEN [err |-> a.err, bytes |-> <<>>]
     ELSE IF ~IsOk(b.err) THEN [err |-> b.err, bytes |-> <<>>]
     ELSE IF ~IsOk(c.err) THEN [err |-> c.err, bytes |-> <<>>]
     ELSE [err |-> NoErr, bytes |-> a.bytes \o b.bytes \o c.bytes]

\* decode_row for SCHEMA.
decode_row_bytes(encoded) ==
  IF Len(encoded) # get_row_size THEN [err |-> ErrRowSize, row |-> EmptyRowBytes]
  ELSE LET a == int_column_from_fixed_bytes(SubSeq(encoded, 1, INT_SIZE))
       IN IF ~IsOk(a.err) THEN [err |-> a.err, row |-> EmptyRowBytes]
          ELSE [err |-> NoErr,
                row |-> [id |-> a.val,
                         username |-> varchar_from_fixed_bytes(
                            SubSeq(encoded, INT_SIZE + 1, INT_SIZE + USERNAME_SIZE)),
                         email |-> varchar_from_fixed_bytes(
                            SubSeq(encoded, INT_SIZE + USERNAME_SIZE + 1, get_row_size))]]

\* ------------------------------------------------------ closing a session
\* What the file system does to one Table::flush: it serves it, it refuses
\* to open the file, or it fails the first write of a page after the
\* tablespace header went out.
IoOutcomes == {"ok", "open_fails", "write_fails"}

\* Table::flush under a file system outcome: every failing step leaves
\* through `?`.
table_flush(pages, root_page_num, file, io) ==
  LET th == encode_header(<<table_n_recs(pages), 0, root_page_num>>, TABLESPACE_HEADER_SIZE)
  IN IF io = "open_fails" THEN [err |-> ErrIo, file |-> file]
     ELSE IF io = "write_fails" /\ IsOk(th.err) /\ Len(pages) > 0
       THEN [err |-> ErrIo, file |-> [file EXCEPT !.header = th.bytes]]
     ELSE flush(pages, root_page_num, file)

\* Database::flush for the one table of the database: the table's error
\* goes to warn!, and the function ends in Ok(()).
database_flush(pages, root_page_num, file, io) ==
  LET t == table_flush(pages, root_page_num, file, io)
  IN [err |-> NoErr, warned |-> t.err, file |-> t.file]

\* Session::close: self.database.flush()?; Ok(()).
session_close(pages, root_page_num, file, io) ==
  LET d == database_flush(pages, root_page_num, file, io)
  IN [err |-> d.err, warned |-> d.warned, file |-> d.file]

\* ------------------------------------------------------------- status bar
\* A String is the sequence of its chars, each char a one-character
\* string; an Option is a record saying whether it is Some.
\* None of an Option<u16> or Option<usize>, and None of an Option<String>.
None == [some |-> FALSE, val |-> 0]

NoneString == [some |-> FALSE, val |-> <<>>]

Some(v) == [some |-> TRUE, val |-> v]

\* a.or(b)
OptionOr(a, b) == IF a.some THEN a ELSE b

\* The bytes a char takes in UTF-8, for ASCII and the two-byte chars used
\* below: String::len counts these.
Utf8Len(c) == IF c \in {"é", "ü"} THEN 2 ELSE 1

RECURSIVE str_len(_)
str_len(text) == IF Len(text) = 0 THEN 0 ELSE Utf8Len(text[1]) + str_len(Tail(text))

\* The Display of an unsigned integer.
RECURSIVE Decimal(_)
Decimal(n) ==
  LET digit == <<"0", "1", "2", "3", "4", "5", "6", "7", "8", "9">>[(n % 10) + 1]
  IN IF n < 10 THEN <<digit>> ELSE Append(Decimal(n \div 10), digit)

\* StatusBar::default
StatusBarDefault == [database |-> NoneString, x |-> None, y |-> None, buf |-> None]

\* StatusBar::update
status_update(bar, database, x, y, buf) ==
  [database |-> OptionOr(database, bar.database),
   x |-> OptionOr(x, bar.x),
   y |-> OptionOr(y, bar.y),
   buf |-> OptionOr(buf, bar.buf)]

\* u16 + 1: past 65535 a build with overflow checks panics and a build
\* without them wraps.
u16_add_one(v, overflow_checks) ==
  IF v + 1 <= 65535 THEN [panic |-> FALSE, val |-> v + 1]
  ELSE IF overflow_checks THEN [panic |-> TRUE, val |-> 0]
  ELSE [panic |-> FALSE, val |-> (v + 1) % 65536]

\* The status_text of StatusBar::format.
status_text(bar, ln, col) ==
  <<"D", "B", ":", " ">>
  \o (IF bar.database.some THEN bar.database.val ELSE <<"-">>)
  \o <<" ", "|", " ", "L", "n", " ">> \o Decimal(ln)
  \o <<",", " ", "C", "o", "l", " ">> \o Decimal(col)
  \o <<" ", "|", " ", "B", "u", "f", "f", "e", "r", ":", " ">>
  \o Decimal(IF bar.buf.some THEN bar.buf.val ELSE 0)

\* StatusBar::format
status_format(bar, width, overflow_checks) ==
  LET ln == u16_add_one(IF bar.y.some THEN bar.y.val ELSE 0, overflow_checks)
      col == u16_add_one(IF bar.x.some THEN bar.x.val ELSE 0, overflow_checks)
      text == status_text(bar, ln.val, col.val)
      take_len == IF width >= 3 THEN width - 3 ELSE 0
  IN IF ln.panic \/ col.panic THEN [panic |-> TRUE, out |-> <<>>]
     ELSE IF str_len(text) > width
       THEN [panic |-> FALSE,
             out |-> SubSeq(text, 1, IF take_len < Len(text) THEN take_len ELSE Len(text))
                     \o <<".", ".", ".">>]
     ELSE [panic |-> FALSE, out |-> text]

\* No Cursor is held.
NoCursor == [op |-> "none", err |-> NoErr, page_num |-> 0, cell_num |-> 0, end_of_table |-> FALSE]

\* -------------------------------------------------- primary keys as i64
\* Row::get_id on the i64 primary value v (its 8 bytes, least significant
\* first): `*v as u32` keeps the low 32 bits.  The u32 is written as the
\* 32-bit integer with the same bits.
get_id_i64(v) ==
  v[1] + 256 * v[2] + 65536 * v[3] + 16777216 * (IF v[4] >= 128 THEN v[4] - 256 ELSE v[4])

\* insert_row for a row whose primary value is the i64 v: the key is
\* get_id(v), and encode_row must fit v into the INT column before the
\* cursor looks for the key.  A value that fits is the sign extension of
\* its low 32 bits, which is the number the row is stored under.
insert_row_i64(pages, root_page_num, v, username, text) ==
  LET row_id == get_id_i64(v)
      a == int_column_to_fixed_bytes(v, INT_SIZE)
  IN IF ~IsOk(a.err) THEN [pages |-> pages, err |-> a.err]
     ELSE insert_row(pages, root_page_num, Row(row_id, username, text))

\* ----------------------------------------------------------- state machine
VARIABLES
  pages,          \* Table.pager: the page buffers, page p at index p + 1
  root_page_num,  \* Table.root_page_num
  file,           \* the table file on disk
  result,         \* the last call: its name, its key and what it returned
  ok_count,       \* history: per key, how many insert_row calls returned Ok
  table_lock,     \* the Mutex around the Table: 0 when free, else its holder
  call,           \* per executor, the storage call it is inside of
  codec,          \* the last call of the row codec: its input and its outputs
  warned,         \* the last error Database::flush logged with warn!
  status,         \* the StatusBar of the repl and its last format call
  cursor,         \* the Cursor a caller holds on the table, and the call that made it
  guards          \* the MutexGuards of pages that are alive, and the last Pager::get

vars == <<pages, root_page_num, file, result, ok_count, table_lock, call, codec, warned, status, cursor, guards>>

Executors == 1..NumExecutors

\* An executor that is inside no call.
IdleCall == [op |-> "idle", key |-> 0, final |-> [pages |-> <<>>, err |-> NoErr]]

Keys == 1..MaxKey

\* The username 'user<k>' of the rows the tests insert, as the little-endian
\* words of its bytes.
user_name(k) ==
  [i \in 1..(ValWords - 2) |->
     IF i = 1 THEN 117 + 256 * 115 + 65536 * 101 + 16777216 * 114
     ELSE IF i = 2
       THEN (IF k < 10 THEN 48 + k ELSE (48 + (k \div 10)) + 256 * (48 + (k % 10)))
     ELSE 0]

\* The row (k, 'user<k>', 'person<k>@example.com') the executor builds; the
\* token k stands for the email column.
RowOf(k) == Row(k, user_name(k), k)

NoRows == <<>>

Count(k) == IF k \in DOMAIN ok_count THEN ok_count[k] ELSE 0

RECURSIVE SumCount(_)
SumCount(S) ==
  IF S = {} THEN 0
  ELSE LET k == CHOOSE x \in S : TRUE IN ok_count[k] + SumCount(S \ {k})

\* The number of insert_row calls that returned Ok so far.
OkInserts == SumCount(DOMAIN ok_count)

Init ==
  /\ pages = create_table.pages
  /\ root_page_num = create_table.root_page_num
  /\ file = EmptyFile
  /\ result = [op |-> "create", key |-> 0, err |-> NoErr, rows |-> NoRows]
  /\ ok_count = [k \in {} |-> 0]
  /\ table_lock = 0
  /\ call = [e \in Executors |-> IdleCall]
  /\ codec = [op |-> "none", row |-> EmptyRowBytes, bytes |-> <<>>, err |-> NoErr,
              row2 |-> EmptyRowBytes, bytes2 |-> <<>>]
  /\ warned = NoErr
  /\ status = [bar |-> StatusBarDefault, op |-> "new", width |-> 0, panic |-> FALSE, out |-> <<>>]
  /\ cursor = NoCursor
  /\ guards = [held |-> [p \in {} |-> 0], op |-> "none", page_num |-> 0, err |-> NoErr]

\* command::execute_insert -> storage::insert_row for the row of key k.
Insert(k) ==
  /\ LET r == insert_row(pages, root_page_num, RowOf(k))
     IN /\ pages' = r.pages
        /\ result' = [op |-> "insert", key |-> k, err |-> r.err, rows |-> NoRows]
        /\ ok_count' = IF ~IsOk(r.err) THEN ok_count
                       ELSE IF k \in DOMAIN ok_count THEN [ok_count EXCEPT ![k] = @ + 1]
                       ELSE ok_count @@ (k :> 1)
  /\ UNCHANGED <<root_page_num, file, table_lock, call, codec, warned, status, cursor, guards>>

\* The keys a client may send next: every key it has inserted before, and
\* of the keys it has not, the lowest and the highest.
Fresh == Keys \ DOMAIN ok_count

Offered ==
  (Keys \cap DOMAIN ok_count)
  \cup {k \in Fresh : (\A x \in Fresh : k <= x) \/ (\A x \in Fresh : k >= x)}

InsertRow ==
  /\ OkInserts < MaxInserts
  /\ \E k \in Offered : Insert(k)

\* command::execute_select -> storage::select_rows.
SelectRows ==
  /\ LET r == select_rows(pages, root_page_num)
     IN result' = [op |-> "select", key |-> 0, err |-> r.err, rows |-> r.rows]
  /\ UNCHANGED <<pages, root_page_num, file, ok_count, table_lock, call, codec, warned, status, cursor, guards>>

\* Database::flush -> Table::flush.
Flush ==
  /\ LET r == flush(pages, root_page_num, file)
     IN /\ file' = r.file
        /\ result' = [op |-> "flush", key |-> 0, err |-> r.err, rows |-> NoRows]
  /\ UNCHANGED <<pages, root_page_num, ok_count, table_lock, call, codec, warned, status, cursor, guards>>

\* Database::load -> load_table when the database is opened again after the
\* flush that closed it: the table handle is replaced by the one read from
\* the file; a failed load leaves no new handle.
LoadTable ==
  /\ result.op = "flush"
  /\ IsOk(result.err)
  /\ LET r == load_table(file)
     IN /\ pages' = IF IsOk(r.err) THEN r.pages ELSE pages
        /\ root_page_num' = IF IsOk(r.err) THEN r.root_page_num ELSE root_page_num
        /\ result' = [op |-> "load", key |-> 0, err |-> r.err, rows |-> NoRows]
  /\ UNCHANGED <<file, ok_count, table_lock, call, codec, warned, status, cursor, guards>>

\* Any client: inserts of offered keys and selects.
Next ==
  \/ InsertRow
  \/ SelectRows

Spec == Init /\ [][Next]_vars

\* The ids of test_execute_insert_multiple_pages and test_execute_insert_2,
\* in the order the tests insert them.
TestOrder ==
  <<18, 7, 10, 29, 23, 4, 14, 30, 15, 26, 22, 19, 2, 1, 21,
    11, 6, 20, 5, 8, 9, 3, 12, 27, 17, 16, 13, 24, 25, 28>>

\* The tests' client: the next id of TestOrder; an id whose insert failed is
\* sent again.
InsertTest ==
  /\ OkInserts < Len(TestOrder)
  /\ Insert(TestOrder[OkInserts + 1])

NextTest ==
  \/ InsertTest
  \/ SelectRows
  \/ Flush
  \/ LoadTable

SpecTest == Init /\ [][NextTest]_vars

\* A client filling the table: the key after the highest one stored, so a
\* key whose insert failed is sent again.
NextKey ==
  IF DOMAIN ok_count = {} THEN 1
  ELSE 1 + (CHOOSE m \in DOMAIN ok_count : \A x \in DOMAIN ok_count : x <= m)

InsertAscending == Insert(NextKey)

NextFull ==
  \/ InsertAscending
  \/ SelectRows

SpecFull == Init /\ [][NextFull]_vars

\* Several executors on one table.  Mutex::lock blocks until the table is
\* free; the guard lives until the call returns.
TableLockFree == table_lock = 0

\* command::execute_insert, from taking the table lock into insert_row.
ExecInsertBegin(e, k) ==
  /\ call[e].op = "idle"
  /\ TableLockFree
  /\ table_lock' = e
  /\ pages' = insert_row_begin(pages, root_page_num, RowOf(k))
  /\ call' = [call EXCEPT ![e] = [op |-> "insert", key |-> k,
                                   final |-> insert_row(pages, root_page_num, RowOf(k))]]
  /\ UNCHANGED <<root_page_num, file, result, ok_count, codec, warned, status, cursor, guards>>

\* command::execute_insert, the rest of insert_row and the return that drops
\* the guard.
ExecInsertEnd(e) ==
  /\ call[e].op = "insert"
  /\ pages' = call[e].final.pages
  /\ result' = [op |-> "insert", key |-> call[e].key, err |-> call[e].final.err,
                rows |-> NoRows]
  /\ ok_count' = IF ~IsOk(call[e].final.err) THEN ok_count
                 ELSE IF call[e].key \in DOMAIN ok_count
                   THEN [ok_count EXCEPT ![call[e].key] = @ + 1]
                 ELSE ok_count @@ (call[e].key :> 1)
  /\ table_lock' = 0
  /\ call' = [call EXCEPT ![e] = IdleCall]
  /\ UNCHANGED <<root_page_num, file, codec, warned, status, cursor, guards>>

\* command::execute_select, taking the table lock.
ExecSelectBegin(e) ==
  /\ call[e].op = "idle"
  /\ TableLockFree
  /\ table_lock' = e
  /\ call' = [call EXCEPT ![e] = [IdleCall EXCEPT !.op = "select"]]
  /\ UNCHANGED <<pages, root_page_num, file, result, ok_count, codec, warned, status, cursor, guards>>

\* command::execute_select, select_rows and the return that drops the guard.
ExecSelectEnd(e) ==
  /\ call[e].op = "select"
  /\ LET r == select_rows(pages, root_page_num)
     IN result' = [op |-> "select", key |-> 0, err |-> r.err, rows |-> r.rows]
  /\ table_lock' = 0
  /\ call' = [call EXCEPT ![e] = IdleCall]
  /\ UNCHANGED <<pages, root_page_num, file, ok_count, codec, warned, status, cursor, guards>>

ExecInsert ==
  /\ OkInserts < MaxInserts
  /\ \E e \in Executors : \E k \in Offered : ExecInsertBegin(e, k)

NextConc ==
  \/ ExecInsert
  \/ \E e \in Executors : ExecInsertEnd(e)
  \/ \E e \in Executors : ExecSelectBegin(e)
  \/ \E e \in Executors : ExecSelectEnd(e)

SpecConc == Init /\ [][NextConc]_vars

\* The row codec called on its own.  An i64 given as a number of the model
\* is sign-extended to its 8 bytes.
I64Of(v) ==
  IF v >= 0 THEN LeBytes(v, 4) \o <<0, 0, 0, 0>>
  ELSE Complement(LeBytes(-(v + 1), 4)) \o <<255, 255, 255, 255>>

\* INT values around every change of the varint's width, and the ends of
\* the i64 range.
CodecIds ==
  {I64Of(0), I64Of(1), I64Of(-1), I64Of(125), I64Of(126), I64Of(-126),
   I64Of(32767), I64Of(32768), I64Of(-32769),
   I64Of(2147483647), I64Of(-2147483647 - 1),
   <<0, 0, 0, 128, 0, 0, 0, 0>>,
   <<255, 255, 255, 127, 255, 255, 255, 255>>,
   <<255, 255, 255, 255, 255, 255, 255, 127>>,
   <<0, 0, 0, 0, 0, 0, 0, 128>>}

\* Usernames as build_row hands them over: '', 'u', 'user1' and a text of
\* the full column width.
CodecUsernames ==
  {build_varchar(<<>>, USERNAME_SIZE),
   build_varchar(<<117>>, USERNAME_SIZE),
   build_varchar(<<117, 115, 101, 114, 49>>, USERNAME_SIZE),
   build_varchar([i \in 1..(USERNAME_SIZE + 8) |-> 97], USERNAME_SIZE)}

\* The rows given to encode_row: valid rows of SCHEMA with the email
\* 'a@b'.
CodecRows ==
  {[id |-> i, username |-> u, email |-> build_varchar(<<97, 64, 98>>, EMAIL_SIZE)] :
     i \in CodecIds, u \in CodecUsernames}

\* The 8 bytes of the INT column of a buffer: canonical varints, a varint
\* with bytes behind it, varints wider than their value needs, a cut-off
\* u64 and the markers that are no i64.
CodecIntSlots ==
  {ZeroBytes(INT_SIZE),
   Pad(<<2>>, INT_SIZE),
   Pad(<<250>>, INT_SIZE),
   Pad(<<5, 7>>, INT_SIZE),
   Pad(<<251, 5, 0>>, INT_SIZE),
   Pad(<<251, 0, 1>>, INT_SIZE),
   Pad(<<252, 0, 0, 1, 0>>, INT_SIZE),
   <<253, 1, 2, 3, 4, 5, 6, 7>>,
   Pad(<<254>>, INT_SIZE),
   Pad(<<255>>, INT_SIZE)}

\* The 32 bytes of the username column of a buffer: zeros, a padded text, a
\* text behind a zero byte, and bytes that are no UTF-8.
CodecNameSlots ==
  {ZeroBytes(USERNAME_SIZE),
   Pad(<<117, 115, 101, 114, 49>>, USERNAME_SIZE),
   Pad(<<0, 97>>, USERNAME_SIZE),
   Pad(<<255>>, USERNAME_SIZE),
   [i \in 1..USERNAME_SIZE |-> 255]}

\* The buffers of row_size bytes given to decode_row.
CodecBuffers ==
  {a \o b \o ZeroBytes(EMAIL_SIZE) : a \in CodecIntSlots, b \in CodecNameSlots}

\* decode_row(encode_row(row)).
EncodeDecode ==
  /\ \E row \in CodecRows :
       LET e == encode_row_bytes(row)
           d == decode_row_bytes(e.bytes)
       IN codec' = [op |-> "encode_decode", row |-> row, bytes |-> e.bytes,
                    err |-> IF IsOk(e.err) THEN d.err ELSE e.err,
                    row2 |-> IF IsOk(e.err) THEN d.row ELSE EmptyRowBytes,
                    bytes2 |-> <<>>]
  /\ UNCHANGED <<pages, root_page_num, file, result, ok_count, table_lock, call, warned, status, cursor, guards>>

\* encode_row(decode_row(buffer)).
DecodeEncode ==
  /\ \E buffer \in CodecBuffers :
       LET d == decode_row_bytes(buffer)
           e == encode_row_bytes(d.row)
       IN codec' = [op |-> "decode_encode", row |-> EmptyRowBytes, bytes |-> buffer,
                    err |-> IF IsOk(d.err) THEN e.err ELSE d.err,
                    row2 |-> d.row,
                    bytes2 |-> IF IsOk(d.err) THEN e.bytes ELSE <<>>]
  /\ UNCHANGED <<pages, root_page_num, file, result, ok_count, table_lock, call, warned, status, cursor, guards>>

NextCodec ==
  \/ EncodeDecode
  \/ DecodeEncode

SpecCodec == Init /\ [][NextCodec]_vars

\* Session::close under any outcome of the file system.
SessionClose ==
  /\ \E io \in IoOutcomes :
       LET r == session_close(pages, root_page_num, file, io)
       IN /\ file' = r.file
          /\ warned' = r.warned
          /\ result' = [op |-> "close", key |-> 0, err |-> r.err, rows |-> NoRows]
  /\ UNCHANGED <<pages, root_page_num, ok_count, table_lock, call, codec, status, cursor, guards>>

\* The tests' client with a session that is closed now and then.
NextClose ==
  \/ InsertTest
  \/ SessionClose

SpecClose == Init /\ [][NextClose]_vars

\* The repl's status bar: the values its callers hand to update, and the
\* terminal widths format is called with.
StatusDatabases == {NoneString, Some(<<"m", "y", "d", "b">>), Some(<<"m", "é", "n", "ü">>)}

StatusCoordinates == {None, Some(5), Some(65535)}

StatusBuffers == {None, Some(42)}

StatusWidths == {0, 1, 2, 3, 20, 33, 34, 35, 80}

StatusUpdate ==
  /\ \E database \in StatusDatabases, x \in StatusCoordinates, y \in StatusCoordinates, buf \in StatusBuffers :
       status' = [bar |-> status_update(status.bar, database, x, y, buf), op |-> "update",
                  width |-> 0, panic |-> FALSE, out |-> <<>>]
  /\ UNCHANGED <<pages, root_page_num, file, result, ok_count, table_lock, call, codec, warned, cursor, guards>>

\* StatusBar::clear
StatusClear ==
  /\ status' = [bar |-> StatusBarDefault, op |-> "clear", width |-> 0, panic |-> FALSE, out |-> <<>>]
  /\ UNCHANGED <<pages, root_page_num, file, result, ok_count, table_lock, call, codec, warned, cursor, guards>>

\* StatusBar::draw -> format(width), in a build with or without overflow
\* checks.
StatusFormat ==
  /\ \E width \in StatusWidths, overflow_checks \in BOOLEAN :
       LET r == status_format(status.bar, width, overflow_checks)
       IN status' = [bar |-> status.bar, op |-> "format", width |-> width,
                     panic |-> r.panic, out |-> r.out]
  /\ UNCHANGED <<pages, root_page_num, file, result, ok_count, table_lock, call, codec, warned, cursor, guards>>

NextStatus ==
  \/ StatusUpdate
  \/ StatusClear
  \/ StatusFormat

SpecStatus == Init /\ [][NextStatus]_vars

\* A caller walking the table with a Cursor.  The Cursor borrows the table
\* mutably, so rows are inserted only while no Cursor is held.
CursorInsert ==
  /\ cursor = NoCursor
  /\ InsertTest

\* Cursor::start
CursorStart ==
  /\ cursor = NoCursor
  /\ LET c == cursor_start(pages, root_page_num)
     IN cursor' = [op |-> "start", err |-> c.err, page_num |-> c.page_num,
                   cell_num |-> c.cell_num, end_of_table |-> c.end_of_table]
  /\ UNCHANGED <<pages, root_page_num, file, result, ok_count, table_lock, call, codec, warned, status, guards>>

\* Cursor::leaf_node_find on the root page or on a leaf page.
CursorLeafNodeFind ==
  /\ cursor = NoCursor
  /\ \E page_num \in {p \in 0..(Len(pages) - 1) :
                        p = root_page_num \/ PageAt(pages, p).node_type = NodeLeaf} :
       \E key \in Keys :
         LET c == cursor_leaf_node_find(pages, page_num, key)
         IN cursor' = [op |-> "find", err |-> c.err, page_num |-> c.page_num,
                       cell_num |-> c.cell_num, end_of_table |-> c.end_of_table]
  /\ UNCHANGED <<pages, root_page_num, file, result, ok_count, table_lock, call, codec, warned, status, guards>>

\* Cursor::advance, called as select_rows calls it: while the cursor is not
\* at the end of the table.
CursorAdvance ==
  /\ cursor # NoCursor
  /\ IsOk(cursor.err)
  /\ ~cursor.end_of_table
  /\ LET c == cursor_advance(pages, cursor)
     IN cursor' = [c EXCEPT !.op = "advance"]
  /\ UNCHANGED <<pages, root_page_num, file, result, ok_count, table_lock, call, codec, warned, status, guards>>

\* The Cursor goes out of scope.
CursorDrop ==
  /\ cursor # NoCursor
  /\ cursor' = NoCursor
  /\ UNCHANGED <<pages, root_page_num, file, result, ok_count, table_lock, call, codec, warned, status, guards>>

NextCursor ==
  \/ CursorInsert
  \/ CursorStart
  \/ CursorLeafNodeFind
  \/ CursorAdvance
  \/ CursorDrop

SpecCursor == Init /\ [][NextCursor]_vars

\* A caller of the pager.  guards.held counts, per page, the guards that are
\* alive.  A guard borrows the pager, so rows are inserted only while no
\* guard is alive.
HeldPages == DOMAIN guards.held

PagerInsert ==
  /\ HeldPages = {}
  /\ InsertTest

\* Pager::get(page_num): the caller keeps the guard it is given.
PagerGet(page_num) ==
  /\ LET e == get(pages, page_num, HeldPages)
     IN guards' = [held |-> IF ~IsOk(e) THEN guards.held
                            ELSE IF page_num \in HeldPages
                              THEN [guards.held EXCEPT ![page_num] = @ + 1]
                            ELSE guards.held @@ (page_num :> 1),
                   op |-> "get", page_num |-> page_num, err |-> e]
  /\ UNCHANGED <<pages, root_page_num, file, result, ok_count, table_lock, call, codec, warned, status, cursor>>

\* A guard of page_num is dropped.
PagerDrop(page_num) ==
  /\ page_num \in HeldPages
  /\ guards' = [held |-> IF guards.held[page_num] > 1
                         THEN [guards.held EXCEPT ![page_num] = @ - 1]
                         ELSE [p \in HeldPages \ {page_num} |-> guards.held[p]],
                op |-> "drop", page_num |-> page_num, err |-> NoErr]
  /\ UNCHANGED <<pages, root_page_num, file, result, ok_count, table_lock, call, codec, warned, status, cursor>>

\* The page numbers a caller asks for: every page of the pager and the
\* first number past its end.
PagerGetAny == \E page_num \in 0..Len(pages) : PagerGet(page_num)

PagerDropAny == \E page_num \in HeldPages : PagerDrop(page_num)

NextPager ==
  \/ PagerInsert
  \/ PagerGetAny
  \/ PagerDropAny

SpecPager == Init /\ [][NextPager]_vars

\* A client whose inserts descend to the leaf of the key: of the ids it has
\* not stored yet, the lowest or the highest.
DescendFresh == (1..MaxDescendKey) \ DOMAIN ok_count

\* The page model holds the internal cells 0..3 and so a num_keys of at most
\* INTERNAL_NODE_MAX_CELLS + 1: the client stops at a table with a higher
\* one.
DescendInsert ==
  /\ \A p \in 0..(Len(pages) - 1) :
       PageAt(pages, p).node_type = NodeInternal =>
         PageAt(pages, p).n <= INTERNAL_NODE_MAX_CELLS + 1
  /\ \E k \in {x \in DescendFresh : (\A y \in DescendFresh : x <= y) \/ (\A y \in DescendFresh : x >= y)} :
       LET r == insert_row_descending(pages, root_page_num, RowOf(k))
       IN /\ pages' = r.pages
          /\ result' = [op |-> "insert", key |-> k, err |-> r.err, rows |-> NoRows]
          /\ ok_count' = IF IsOk(r.err) THEN ok_count @@ (k :> 1) ELSE ok_count
  /\ UNCHANGED <<root_page_num, file, table_lock, call, codec, warned, status, cursor, guards>>

NextDescend ==
  \/ DescendInsert
  \/ SelectRows

SpecDescend == Init /\ [][NextDescend]_vars

\* ------------------------------------------- internal nodes below the root
\* insert_row and the descending client never get an internal node below
\* the root, so internal_node_insert is called here on trees of three
\* levels that are put together page by page.  A leaf with the one row of
\* key k:
leaf_with(k, parent, next_leaf) ==
  set_leaf_node_value(
    set_leaf_node_key([initialize_leaf_node(ZeroPage)
                         EXCEPT !.n = 1, !.parent = parent, !.link = next_leaf],
                      0, k),
    0, encode_row(RowOf(k)).val)

\* An internal node over the pages children (with their maximum keys keys)
\* and right_child.
internal_with(children, keys, right_child, parent, is_root) ==
  [initialize_internal_node(ZeroPage)
     EXCEPT !.n = Len(keys), !.link = right_child, !.parent = parent, !.is_root = is_root,
            !.w = [x \in 1..NumWords |->
                     IF x > 2 * Len(keys) THEN 0
                     ELSE IF x % 2 = 1 THEN children[(x + 1) \div 2]
                     ELSE keys[x \div 2]]]

\* The tree whose root (page 0) has the internal children 1 and 2: page 1
\* holds m keys over the leaves 3 .. 3 + m with the keys 10, 20, ..., and
\* page 2 holds one key over two leaves with the keys 60 and 70.
ThreeLevelTree(m) ==
  <<internal_with(<<1>>, <<10 * (m + 1)>>, 2, 0, 1),
    internal_with([i \in 1..m |-> 2 + i], [i \in 1..m |-> 10 * i], 3 + m, 0, 0),
    internal_with(<<4 + m>>, <<60>>, 5 + m, 0, 0)>>
  \o [i \in 1..(m + 1) |-> leaf_with(10 * i, 1, 3 + i)]
  \o <<leaf_with(60, 2, 5 + m), leaf_with(70, 2, 0)>>

InitInternal ==
  /\ pages \in {ThreeLevelTree(m) : m \in 1..INTERNAL_NODE_MAX_CELLS}
  /\ root_page_num = 0
  /\ file = EmptyFile
  /\ result = [op |-> "create", key |-> 0, err |-> NoErr, rows |-> NoRows]
  /\ ok_count = [k \in {} |-> 0]
  /\ table_lock = 0
  /\ call = [e \in Executors |-> IdleCall]
  /\ codec = [op |-> "none", row |-> EmptyRowBytes, bytes |-> <<>>, err |-> NoErr,
              row2 |-> EmptyRowBytes, bytes2 |-> <<>>]
  /\ warned = NoErr
  /\ status = [bar |-> StatusBarDefault, op |-> "new", width |-> 0, panic |-> FALSE, out |-> <<>>]
  /\ cursor = NoCursor
  /\ guards = [held |-> [p \in {} |-> 0], op |-> "none", page_num |-> 0, err |-> NoErr]

\* The end of the split of a leaf below parent_page_num: the new leaf page
\* with the key k exists, and internal_node_insert hands it to the parent.
\* result.key is the parent and result.rows its num_keys before the call.
InternalAddLeaf(parent_page_num, k) ==
  /\ LET child_page_num == get_unused_page_num(pages)
         p1 == SetPage(try_create(pages, child_page_num), child_page_num,
                       leaf_with(k, parent_page_num, 0))
         r == internal_node_insert(p1, root_page_num, parent_page_num, child_page_num)
     IN /\ pages' = r.pages
        /\ result' = [op |-> "internal_node_insert", key |-> parent_page_num, err |-> r.err,
                      rows |-> <<PageAt(pages, parent_page_num).n>>]
        /\ ok_count' = IF IsOk(r.err) THEN ok_count @@ (k :> 1) ELSE ok_count
  /\ UNCHANGED <<root_page_num, file, table_lock, call, codec, warned, status, cursor, guards>>

\* New leaves for the internal nodes 1 and 2, with keys between the keys
\* their leaves hold and that no leaf was made for yet, while the pager has
\* fewer than MaxInternalPages pages and the parent's num_keys is one the
\* page model holds the cells of.
InternalInsert ==
  /\ Len(pages) < MaxInternalPages
  /\ \E parent_page_num \in {1, 2} :
       \E k \in {x \in 1..79 : x % 10 = 5 /\ (parent_page_num = 1 <=> x < 50)} :
         /\ PageAt(pages, parent_page_num).n <= INTERNAL_NODE_MAX_CELLS + 1
         /\ k \notin DOMAIN ok_count
         /\ InternalAddLeaf(parent_page_num, k)

NextInternal ==
  \/ InternalInsert
  \/ SelectRows

SpecInternal == InitInternal /\ [][NextInternal]_vars

\* ------------------------------------------------- an empty internal node
\* The sibling that a split prepares: a new page, initialised as an
\* internal node (no keys, right_child = INVALID_PAGE_NUM).
InternalNewNode ==
  /\ Len(pages) < MaxInternalPages
  /\ LET new_page_num == get_unused_page_num(pages)
         p1 == try_create(pages, new_page_num)
     IN /\ pages' = SetPage(p1, new_page_num,
                            initialize_internal_node(PageAt(p1, new_page_num)))
        /\ result' = [op |-> "initialize_internal_node", key |-> new_page_num,
                      err |-> NoErr, rows |-> NoRows]
  /\ UNCHANGED <<root_page_num, file, ok_count, table_lock, call, codec, warned, status,
                 cursor, guards>>

\* internal_node_insert on an internal node that has no right child yet; the
\* child is a new leaf with a key above the keys of the tree.
InternalInsertEmpty ==
  /\ Len(pages) < MaxInternalPages
  /\ \E parent_page_num \in 0..(Len(pages) - 1) :
       \E k \in {85, 95} :
         /\ PageAt(pages, parent_page_num).node_type = NodeInternal
         /\ PageAt(pages, parent_page_num).link = INVALID_PAGE_NUM
         /\ k \notin DOMAIN ok_count
         /\ InternalAddLeaf(parent_page_num, k)

NextEmptyNode ==
  \/ InternalNewNode
  \/ InternalInsertEmpty
  \/ InternalInsert

SpecEmptyNode == InitInternal /\ [][NextEmptyNode]_vars

\* ------------------------------------------------------ creating pages
\* A pager as Pager::new leaves it, before create_table asks for page 0.
InitCreate ==
  /\ pages = <<>>
  /\ root_page_num = 0
  /\ file = EmptyFile
  /\ result = [op |-> "new", key |-> 0, err |-> NoErr, rows |-> NoRows]
  /\ ok_count = [k \in {} |-> 0]
  /\ table_lock = 0
  /\ call = [e \in Executors |-> IdleCall]
  /\ codec = [op |-> "none", row |-> EmptyRowBytes, bytes |-> <<>>, err |-> NoErr,
              row2 |-> EmptyRowBytes, bytes2 |-> <<>>]
  /\ warned = NoErr
  /\ status = [bar |-> StatusBarDefault, op |-> "new", width |-> 0, panic |-> FALSE, out |-> <<>>]
  /\ cursor = NoCursor
  /\ guards = [held |-> [p \in {} |-> 0], op |-> "none", page_num |-> 0, err |-> NoErr]

\* Pager::try_create(page_num); it has no error to return.  result.rows is
\* the length of the pager before the call.
PagerTryCreate ==
  /\ Len(pages) < MaxCreatePages
  /\ \E page_num \in 0..(Len(pages) + 2) :
       /\ pages' = try_create(pages, page_num)
       /\ result' = [op |-> "try_create", key |-> page_num, err |-> NoErr,
                     rows |-> <<Len(pages)>>]
  /\ UNCHANGED <<root_page_num, file, ok_count, table_lock, call, codec, warned, status,
                 cursor, guards>>

\* Rows go into the table once its root page exists.
CreateInsert ==
  /\ Len(pages) >= 1
  /\ InsertTest

NextCreate ==
  \/ PagerTryCreate
  \/ CreateInsert

SpecCreate == InitCreate /\ [][NextCreate]_vars

\* ------------------------------------------------- searching a node
\* The keys that are looked up in the internal nodes of the built trees:
\* below, between, equal to and above their keys.
FindKeys == {5 * x : x \in 0..13}

\* Node::internal_node_find_child(key) on the internal page page_num.
\* result.key is the page and result.rows the key and the index returned.
FindChild ==
  \E page_num \in 0..(Len(pages) - 1) : \E key \in FindKeys :
    /\ PageAt(pages, page_num).node_type = NodeInternal
    /\ result' = [op |-> "internal_node_find_child", key |-> page_num, err |-> NoErr,
                  rows |-> <<key, internal_node_find_child(PageAt(pages, page_num), key)>>]
    /\ UNCHANGED <<pages, root_page_num, file, ok_count, table_lock, call, codec, warned,
                   status, cursor, guards>>

NextFind ==
  \/ FindChild
  \/ InternalNewNode

SpecFind == InitInternal /\ [][NextFind]_vars

\* ------------------------------------------------ rows with wide ids
\* The i64 with the low 32 bits of the number low (sign-extended for
\* high = 0) plus high * 2^32.
WideId(low, high) ==
  IF high = 0 THEN I64Of(low)
  ELSE SubSeq(I64Of(low), 1, 4) \o SubSeq(I64Of(high), 1, 4)

\* Primary values: small ones of both signs, and for two of them the
\* values that differ from them by 2^32 and by -2^32.
WideIds ==
  {WideId(low, 0) : low \in {3, 5, 7, -1, -3}}
  \cup {WideId(low, high) : low \in {5, -1}, high \in {1, -1, -2}}

\* command::execute_insert -> storage::insert_row for a row with the
\* primary value v.  result.key is the key of the row, result.rows holds v.
InsertWide ==
  /\ \E v \in WideIds :
       LET k == get_id_i64(v)
           r == insert_row_i64(pages, root_page_num, v, user_name(1), 1)
       IN /\ pages' = r.pages
          /\ result' = [op |-> "insert", key |-> k, err |-> r.err, rows |-> <<v>>]
          /\ ok_count' = IF ~IsOk(r.err) THEN ok_count
                         ELSE IF k \in DOMAIN ok_count THEN [ok_count EXCEPT ![k] = @ + 1]
                         ELSE ok_count @@ (k :> 1)
  /\ UNCHANGED <<root_page_num, file, table_lock, call, codec, warned, status, cursor, guards>>

NextWide ==
  \/ InsertWide
  \/ SelectRows

SpecWide == Init /\ [][NextWide]_vars

\* ------------------------------------------------------------- properties
\* The tree as the page bytes describe it.
TreeFuel == Len(pages) + 1

InsertCompleted == result.op = "insert" /\ IsOk(result.err)

SelectCompleted == result.op = "select" /\ IsOk(result.err)

KeysDistinct == \A k \in DOMAIN ok_count : ok_count[k] = 1

MaxOf(S) == CHOOSE m \in S : \A x \in S : x <= m

MinOf(a, b) == IF a < b THEN a ELSE b

IsPage(p) == p >= 0 /\ p < Len(pages)

InternalPages == {p \in 0..(Len(pages) - 1) : PageAt(pages, p).node_type = NodeInternal}

LeafPages == {p \in 0..(Len(pages) - 1) : PageAt(pages, p).node_type = NodeLeaf}

LeafKeys(p) ==
  {leaf_node_key(PageAt(pages, p), i) :
     i \in 0..(MinOf(PageAt(pages, p).n, leaf_node_max_cells) - 1)}

\* The children of an internal page: child[0..num_keys - 1] and right_child.
ChildSet(p) ==
  {internal_node_cell_child(PageAt(pages, p), j) :
     j \in 0..(MinOf(PageAt(pages, p).n, NumWords \div 2) - 1)}
  \cup {PageAt(pages, p).link}

RECURSIVE SubtreeKeys(_, _)
SubtreeKeys(p, fuel) ==
  IF fuel = 0 \/ ~IsPage(p) THEN {}
  ELSE IF p \in LeafPages THEN LeafKeys(p)
  ELSE UNION {SubtreeKeys(c, fuel - 1) : c \in ChildSet(p)}

\* The depths at which a walk from page p (at depth d) ends in a leaf; -1
\* for a walk that leaves the pager or does not end.
RECURSIVE LeafDepths(_, _, _)
LeafDepths(p, d, fuel) ==
  IF fuel = 0 \/ ~IsPage(p) THEN {-1}
  ELSE IF p \in LeafPages THEN {d}
  ELSE UNION {LeafDepths(c, d + 1, fuel - 1) : c \in ChildSet(p)}

\* The leaf reached by descending through child[0]; -1 when there is none.
RECURSIVE LeftmostLeaf(_, _)
LeftmostLeaf(p, fuel) ==
  IF fuel = 0 \/ ~IsPage(p) THEN -1
  ELSE IF p \in LeafPages THEN p
  ELSE LeftmostLeaf(IF PageAt(pages, p).n = 0 THEN PageAt(pages, p).link
                    ELSE internal_node_cell_child(PageAt(pages, p), 0), fuel - 1)

\* The pages visited from leaf p by following next_leaf until it is 0; -1
\* ends a walk that leaves the leaves or does not end.
RECURSIVE LeafChain(_, _)
LeafChain(p, fuel) ==
  IF fuel = 0 \/ ~IsPage(p) \/ p \notin LeafPages THEN <<-1>>
  ELSE IF PageAt(pages, p).link = 0 THEN <<p>>
  ELSE <<p>> \o LeafChain(PageAt(pages, p).link, fuel - 1)

\* C1: a select_rows that follows insert_row calls of pairwise distinct keys
\* on an initially empty table returns rows whose keys are strictly
\* ascending.
C1_SelectAscending ==
  (SelectCompleted /\ KeysDistinct) =>
    \A i \in 1..Len(result.rows) : \A j \in 1..Len(result.rows) :
      i < j => result.rows[i].id < result.rows[j].id

\* C2: select_rows returns exactly the rows whose insert_row returned Ok,
\* each of them once.
C2_SelectReturnsInserted ==
  SelectCompleted =>
    /\ Len(result.rows) = OkInserts
    /\ \A k \in DOMAIN ok_count :
         Cardinality({i \in 1..Len(result.rows) : result.rows[i] = RowOf(k)}) = ok_count[k]

\* C3: an insert_row whose key was stored by an earlier insert_row returns
\* Storage("Duplicate key"), so that no key is stored twice.
C3_DuplicateRejected ==
  [][(result'.op = "insert" /\ Count(result'.key) > 0) => result'.err = ErrDuplicate]_vars

\* C4: an insert_row that fails with Duplicate key leaves every page, the
\* number of pages and root_page_num as they were before the call.
C4_DuplicateLeavesTable ==
  [][(result'.op = "insert" /\ result'.err = ErrDuplicate)
       => (pages' = pages /\ root_page_num' = root_page_num)]_vars

\* C4 happens: a key of a table of several rows was sent again and rejected.
C4_Witness ==
  /\ result.op = "insert"
  /\ result.err = ErrDuplicate
  /\ Count(result.key) = 1
  /\ PageAt(pages, root_page_num).n >= 2

\* C5: within the capacity of the table, an insert_row of a key that no
\* earlier insert_row stored returns Ok.
C5_FreshInsertOk ==
  [][(/\ result'.op = "insert"
      /\ Count(result'.key) = 0
      /\ OkInserts < TABLE_MAX_PAGES * leaf_node_max_cells)
       => IsOk(result'.err)]_vars

\* C6: flush followed by load_table of the file gives a table with the same
\* pages in the same number, the same root_page_num and the same
\* select_rows result.
C6_FlushLoadRoundTrip ==
  LET f == flush(pages, root_page_num, file)
      t == load_table(f.file)
  IN IsOk(f.err) =>
       /\ IsOk(t.err)
       /\ Len(t.pages) = Len(pages)
       /\ t.pages = pages
       /\ t.root_page_num = root_page_num
       /\ select_rows(t.pages, t.root_page_num) = select_rows(pages, root_page_num)

\* C6 happens: a table whose root has split was flushed and loaded again.
C6_Witness ==
  /\ result.op = "load"
  /\ IsOk(result.err)
  /\ Len(pages) >= 3
  /\ PageAt(pages, root_page_num).node_type = NodeInternal
  /\ Len(file.frames) = Len(pages)

\* The error the specification names for an insert into a full pager.
ErrTableFull == [kind |-> "Storage", msg |-> "table full"]

\* C7: an insert_row that fails for want of a page while the pager holds
\* TABLE_MAX_PAGES pages reports Storage("table full"), and the pager never
\* holds more than TABLE_MAX_PAGES pages.
C7_TableFullReported ==
  /\ [][(/\ Len(pages) = TABLE_MAX_PAGES
         /\ result'.op = "insert"
         /\ ~IsOk(result'.err)
         /\ result'.err # ErrDuplicate)
          => result'.err = ErrTableFull]_vars
  /\ [](Len(pages) <= TABLE_MAX_PAGES)

\* C8: after a completed insert_row, in every internal node key[i] is the
\* maximum key of the subtree of child[i], the keys increase strictly with
\* i, and the right child holds larger keys than the last of them.
C8_SeparatorKeys ==
  InsertCompleted =>
    \A p \in InternalPages :
      LET node == PageAt(pages, p)
          num_keys == MinOf(node.n, NumWords \div 2)
      IN /\ \A i \in 0..(num_keys - 1) :
              LET ks == SubtreeKeys(internal_node_cell_child(node, i), TreeFuel)
              IN ks # {} /\ internal_node_key(node, i) = MaxOf(ks)
         /\ \A i \in 0..(num_keys - 2) :
              internal_node_key(node, i) < internal_node_key(node, i + 1)
         /\ num_keys >= 1 =>
              LET rk == SubtreeKeys(node.link, TreeFuel)
              IN rk # {} /\ internal_node_key(node, num_keys - 1) < MaxOf(rk)

\* C9: after a completed insert_row, every walk from the root ends in a leaf
\* and all of them end at the same depth.
C9_HeightBalanced ==
  InsertCompleted =>
    LET depths == LeafDepths(root_page_num, 0, TreeFuel)
    IN -1 \notin depths /\ Cardinality(depths) = 1

\* C10: after a completed insert_row, following next_leaf from the leftmost
\* leaf visits every leaf page once and ends at the only leaf whose
\* next_leaf is 0, and every key of a leaf is below every key of the next.
C10_LeafList ==
  InsertCompleted =>
    LET chain == LeafChain(LeftmostLeaf(root_page_num, TreeFuel), Len(pages))
    IN /\ \A i \in 1..Len(chain) : chain[i] # -1
       /\ {chain[i] : i \in 1..Len(chain)} = LeafPages
       /\ Len(chain) = Cardinality(LeafPages)
       /\ \A i \in 1..(Len(chain) - 1) :
            \A a \in LeafKeys(chain[i]) : \A b \in LeafKeys(chain[i + 1]) : a < b

\* The pages whose is_root byte is 1.
RootPages == {p \in 0..(Len(pages) - 1) : is_node_root(PageAt(pages, p))}

\* C11: right after create_table and after every completed insert_row,
\* exactly one page has is_root = 1 and it is page root_page_num.
C11_SingleRoot ==
  (InsertCompleted \/ result.op = "create") => RootPages = {root_page_num}

\* C11 happens: an insert that split the root leaf has completed.
C11_Witness ==
  /\ InsertCompleted
  /\ Len(pages) >= 3
  /\ PageAt(pages, root_page_num).node_type = NodeInternal

\* C12: after a completed insert_row, the parent field of every page other
\* than the root names an internal page one of whose child pointers (a cell
\* child or right_child) is that page.
C12_ParentPointers ==
  InsertCompleted =>
    \A p \in 0..(Len(pages) - 1) :
      p # root_page_num =>
        /\ IsPage(PageAt(pages, p).parent)
        /\ PageAt(pages, p).parent \in InternalPages
        /\ p \in ChildSet(PageAt(pages, p).parent)

\* C13: after a completed insert_row, every internal node with num_keys = k
\* has k + 1 pairwise distinct children, its right_child is not
\* INVALID_PAGE_NUM, every child pointer and root_page_num is a page of the
\* pager, and no page is a child of two internal nodes.
C13_InternalChildren ==
  InsertCompleted =>
    /\ IsPage(root_page_num)
    /\ \A p \in InternalPages :
         /\ PageAt(pages, p).link # INVALID_PAGE_NUM
         /\ Cardinality(ChildSet(p)) = MinOf(PageAt(pages, p).n, NumWords \div 2) + 1
         /\ \A c \in ChildSet(p) : IsPage(c)
    /\ \A p \in InternalPages : \A q \in InternalPages :
         p # q => ChildSet(p) \cap ChildSet(q) = {}

\* C14: after a completed insert_row, the keys of cells 0..num_cells-1 of
\* every leaf page are strictly increasing.
C14_LeafKeysIncreasing ==
  InsertCompleted =>
    \A p \in LeafPages :
      \A i \in 0..(MinOf(PageAt(pages, p).n, leaf_node_max_cells) - 1) :
        \A j \in 0..(MinOf(PageAt(pages, p).n, leaf_node_max_cells) - 1) :
          i < j => U32Less(leaf_node_key(PageAt(pages, p), i),
                           leaf_node_key(PageAt(pages, p), j))

\* C14 happens: the insert that split the full root leaf carried a key below
\* the highest one stored, and both leaves hold several cells.
C14_Witness ==
  /\ InsertCompleted
  /\ Len(pages) >= 3
  /\ \A p \in LeafPages : PageAt(pages, p).n >= 2
  /\ result.key < MaxOf(DOMAIN ok_count)

\* C15: no leaf ever holds more than max_cells cells, and the insert_row
\* that splits a full leaf leaves ceil((max_cells + 1) / 2) cells in the old
\* (left) leaf and floor((max_cells + 1) / 2) cells in the new (right) leaf.
\* The new leaf is the page created first by the call; the old leaf, being
\* the root, continues in the page created second.
C15_LeafSplitCounts ==
  /\ [](\A p \in LeafPages : PageAt(pages, p).n <= leaf_node_max_cells)
  /\ [][(/\ result'.op = "insert"
         /\ IsOk(result'.err)
         /\ Len(pages') > Len(pages))
          => /\ Len(pages') = Len(pages) + 2
             /\ PageAt(pages', Len(pages)).node_type = NodeLeaf
             /\ PageAt(pages', Len(pages)).n = (leaf_node_max_cells + 1) \div 2
             /\ PageAt(pages', Len(pages) + 1).node_type = NodeLeaf
             /\ PageAt(pages', Len(pages) + 1).n
                  = (leaf_node_max_cells + 1) - ((leaf_node_max_cells + 1) \div 2)]_vars

\* C15 happens: the insert into the full root leaf has completed and the
\* table holds the two leaves of the split.
C15_Witness ==
  /\ InsertCompleted
  /\ Len(pages) = 3
  /\ Cardinality(LeafPages) = 2
  /\ OkInserts = leaf_node_max_cells + 1

\* C16: no insert_row and no select_rows asks Pager::get for a page whose
\* guard the same call still holds, so neither ever returns a LockTable
\* error.
C16_NoReentrantGet ==
  result.op \in {"insert", "select"} => result.err # ErrLock

\* C17: with several executors, a select_rows runs only while no insert_row
\* is part of the way through, and it returns every row whose insert_row
\* has returned Ok, no flush being needed.
C17_SerialisedAndVisible ==
  [][\A e \in Executors :
       (call[e].op = "select" /\ call'[e].op = "idle") =>
         /\ \A x \in Executors : call[x].op # "insert"
         /\ IsOk(result'.err)
         /\ \A k \in DOMAIN ok_count :
              \E i \in 1..Len(result'.rows) : result'.rows[i] = RowOf(k)]_vars

\* The serialisation alone: no select_rows runs between the two halves of an
\* insert_row.
C17_Serialised ==
  [][\A e \in Executors :
       (call[e].op = "select" /\ call'[e].op = "idle") =>
         \A x \in Executors : call[x].op # "insert"]_vars

\* A table as create_table leaves it: no insert_row has returned Ok and no
\* leaf holds a cell.
EmptyTable == DOMAIN ok_count = {} /\ table_n_recs(pages) = 0

\* C18: on a newly created table without rows, Cursor::start answers cell 0
\* of the root leaf with end_of_table = true, and select_rows returns the
\* empty list without error.
C18_EmptySelect ==
  /\ [](EmptyTable =>
         /\ IsOk(cursor_start(pages, root_page_num).err)
         /\ cursor_start(pages, root_page_num).end_of_table
         /\ cursor_start(pages, root_page_num).page_num = root_page_num
         /\ cursor_start(pages, root_page_num).cell_num = 0
         /\ PageAt(pages, root_page_num).node_type = NodeLeaf)
  /\ [][(EmptyTable /\ result'.op = "select")
          => (IsOk(result'.err) /\ result'.rows = <<>>)]_vars

\* C18 happens: select_rows has run on the table before any insert.
C18_Witness ==
  /\ EmptyTable
  /\ result.op = "select"
  /\ Len(pages) = 1

\* The length in bytes of the table file: the tablespace header, then per
\* frame the page header and the PAGE_SIZE bytes of the page.
RECURSIVE FramesLength(_, _)
FramesLength(frames, i) ==
  IF i > Len(frames) THEN 0
  ELSE Len(frames[i].page_header) + PAGE_SIZE + FramesLength(frames, i + 1)

FileLength(f) == Len(f.header) + FramesLength(f.frames, 1)

FlushCompleted == result.op = "flush" /\ IsOk(result.err)

\* The three header fields as little-endian u32 at byte offsets 0, 4 and 8
\* of a 16-byte header.
PackedHeader(n_recs, page_first, root) ==
  LeBytes(n_recs, 4) \o LeBytes(page_first, 4) \o LeBytes(root, 4) \o ZeroBytes(4)

C20_RowCodecLaw ==
  /\ codec.op = "encode_decode" =>
       /\ IsOk(codec.err)
       /\ Len(codec.bytes) = get_row_size
       /\ codec.row2 = codec.row
  /\ codec.op = "decode_encode" =>
       /\ IsOk(codec.err)
       /\ codec.bytes2 = codec.bytes

\* C21: when Table::flush fails for the session's table, Session::close
\* returns that error, not Ok.
C21_CloseReturnsFlushError ==
  (result.op = "close" /\ ~IsOk(warned)) => result.err = warned

\* C22: for every StatusBar state and every width w, also w < 3, format(w)
\* returns at most w characters: the whole status text when it fits, else a
\* truncation that ends in '...'.
C22_FormatFitsWidth ==
  status.op = "format" =>
    LET text == status_text(status.bar,
                            (IF status.bar.y.some THEN status.bar.y.val ELSE 0) + 1,
                            (IF status.bar.x.some THEN status.bar.x.val ELSE 0) + 1)
        n == Len(status.out)
    IN /\ ~status.panic
       /\ n <= status.width
       /\ Len(text) <= status.width => status.out = text
       /\ Len(text) > status.width =>
            (n >= 3 /\ SubSeq(status.out, n - 2, n) = <<".", ".", ".">>)

\* C23: for every tree insert_row has built and every key k, Cursor::find
\* answers a position on a leaf page, never on an internal node: the cell
\* of k when the leaf holds k, else the cell where k goes to keep the leaf
\* sorted.
C23_FindReachesLeaf ==
  InsertCompleted =>
    \A k \in Keys :
      LET c == cursor_find(pages, root_page_num, k)
      IN /\ IsOk(c.err)
         /\ c.page_num \in LeafPages
         /\ c.cell_num = Cardinality({x \in LeafKeys(c.page_num) : x < k})

\* C24: Cursor::advance adds one to cell_num; past the last cell of a leaf
\* whose next_leaf is not 0 the cursor goes to cell 0 of page next_leaf and
\* end_of_table stays false; end_of_table becomes true only past the last
\* cell of a leaf whose next_leaf is 0.
C24_AdvanceFollowsNextLeaf ==
  [][(CursorAdvance /\ cursor.page_num \in LeafPages) =>
       LET node == PageAt(pages, cursor.page_num)
       IN /\ IsOk(cursor'.err)
          /\ IF cursor.cell_num + 1 < node.n
             THEN /\ cursor'.page_num = cursor.page_num
                  /\ cursor'.cell_num = cursor.cell_num + 1
                  /\ ~cursor'.end_of_table
             ELSE IF node.link # 0
             THEN /\ cursor'.page_num = node.link
                  /\ cursor'.cell_num = 0
                  /\ ~cursor'.end_of_table
             ELSE cursor'.end_of_table]_vars

\* C25: Pager::get(n) while a guard of page n is alive returns LockTable
\* and hands out no second guard, so no page ever has two live guards; with
\* no live guard of page n it returns a guard; for n at or past the pager's
\* length it returns the Storage error 'page not found'.
C25_GetTryLock ==
  /\ [](\A p \in HeldPages : guards.held[p] <= 1)
  /\ [][\A n \in 0..Len(pages) :
          PagerGet(n) =>
            IF n >= Len(pages)
            THEN guards'.err = ErrPageNotFound /\ guards'.held = guards.held
            ELSE IF n \in HeldPages
            THEN guards'.err = ErrLock /\ guards'.held = guards.held
            ELSE IsOk(guards'.err) /\ guards'.held = guards.held @@ (n :> 1)]_vars

\* A get of a page whose guard is alive was refused while the guard of
\* another page was alive as well.
C25_Witness ==
  /\ guards.op = "get"
  /\ guards.err = ErrLock
  /\ guards.page_num \in HeldPages
  /\ Cardinality(HeldPages) >= 2

\* The root is an internal node that holds INTERNAL_NODE_MAX_CELLS keys, and
\* the leaf of key k is a full child of it that does not hold k: inserting
\* k splits the leaf and hands the root one more child.
RootSplitDue(k) ==
  LET root == PageAt(pages, root_page_num)
      leaf == find_leaf(pages, root_page_num, k, Len(pages))
  IN /\ root.node_type = NodeInternal
     /\ root.n = INTERNAL_NODE_MAX_CELLS
     /\ leaf \in LeafPages
     /\ leaf \in ChildSet(root_page_num)
     /\ PageAt(pages, leaf).n >= leaf_node_max_cells
     /\ k \notin LeafKeys(leaf)

NonRootSplit ==
  /\ InternalInsert
  /\ result'.rows = <<INTERNAL_NODE_MAX_CELLS>>
  /\ ~is_node_root(PageAt(pages, result'.key))

RootLeafSplitDue(k) ==
  /\ PageAt(pages, root_page_num).node_type = NodeLeaf
  /\ PageAt(pages, root_page_num).n >= leaf_node_max_cells
  /\ k \notin LeafKeys(root_page_num)

\* What create_new_root(P_right) leaves behind, seen from the state before
\* the insert of k that called it.
NewRootOver(right_page_num, key) ==
  \E P_right \in {right_page_num}, k \in {key} :
  /\ root_page_num' = root_page_num
  /\ \E P_left \in (0..(Len(pages') - 1)) \ {P_right, root_page_num} :
       /\ PageAt(pages', P_left).node_type = PageAt(pages, root_page_num).node_type
       /\ PageAt(pages', P_left).is_root = 0
       /\ PageAt(pages', P_left).parent = root_page_num
       /\ PageAt(pages', root_page_num).node_type = NodeInternal
       /\ PageAt(pages', root_page_num).is_root = 1
       /\ PageAt(pages', root_page_num).n = 1
       /\ internal_node_cell_child(PageAt(pages', root_page_num), 0) = P_left
       /\ internal_node_key(PageAt(pages', root_page_num), 0)
            = MaxOf(SubtreeKeys(P_left, TreeFuel)')
       /\ PageAt(pages', root_page_num).link = P_right
       /\ P_right < Len(pages')
       /\ PageAt(pages', P_right).parent = root_page_num
       /\ SubtreeKeys(P_left, TreeFuel)' \cup SubtreeKeys(P_right, TreeFuel)'
            = SubtreeKeys(root_page_num, TreeFuel) \cup {k}

C29_InternalNumKeysBounded ==
  InsertCompleted =>
    \A p \in InternalPages :
      /\ PageAt(pages, p).n >= 1
      /\ PageAt(pages, p).n <= INTERNAL_NODE_MAX_CELLS

ChildrenDivided(node, sibling, child) ==
  /\ sibling < Len(pages')
  /\ PageAt(pages', sibling).node_type = NodeInternal
  /\ ChildSet(node)' \cup ChildSet(sibling)' = ChildSet(node) \cup {child}
  /\ ChildSet(node)' \cap ChildSet(sibling)' = {}
  /\ Cardinality(ChildSet(node)') = PageAt(pages', node).n + 1
  /\ Cardinality(ChildSet(sibling)') = PageAt(pages', sibling).n + 1
  /\ \A a \in SubtreeKeys(node, TreeFuel)' :
       \A b \in SubtreeKeys(sibling, TreeFuel)' : a < b
  /\ \A c \in ChildSet(node)' : PageAt(pages', c).parent = node
  /\ \A c \in ChildSet(sibling)' : PageAt(pages', c).parent = sibling

LeafSplitBelow(k) ==
  LET leaf == find_leaf(pages, root_page_num, k, Len(pages))
  IN /\ leaf \in LeafPages
     /\ ~is_node_root(PageAt(pages, leaf))
     /\ PageAt(pages, leaf).n >= leaf_node_max_cells
     /\ k \notin LeafKeys(leaf)
     /\ PageAt(pages, leaf).parent \in InternalPages

CellsOf(node) == [i \in 1..node.n |-> leaf_node_cell(node, i - 1)]

\* The sequence s with c put in front of the element at index pos (from 0).
InsertAt(s, pos, c) == SubSeq(s, 1, pos) \o <<c>> \o SubSeq(s, pos + 1, Len(s))

\* The leaf of key k is full and does not hold k: inserting k splits it.
LeafSplitDue(k) ==
  LET leaf == find_leaf(pages, root_page_num, k, Len(pages))
  IN /\ leaf \in LeafPages
     /\ PageAt(pages, leaf).n >= leaf_node_max_cells
     /\ k \notin LeafKeys(leaf)

C35_TryCreate ==
  [][PagerTryCreate =>
       \E n \in {result'.key}, N \in {Len(pages)} :
         /\ n < N => (IsOk(result'.err) /\ pages' = pages)
         /\ n = N =>
              /\ IsOk(result'.err)
              /\ pages' = Append(pages, [ZeroPage EXCEPT !.node_type = NodeLeaf, !.n = 0,
                                           !.is_root = IF N = 0 THEN 1 ELSE 0])
         /\ n > N => (~IsOk(result'.err) /\ pages' = pages)]_vars

\* The keys key[0 .. num_keys - 1] of an internal node are strictly
\* increasing.
KeysIncreasing(node) ==
  \A i \in 0..(node.n - 2) : internal_node_key(node, i) < internal_node_key(node, i + 1)

\* C36: on an internal node with strictly increasing keys,
\* internal_node_find_child(k) is the smallest index i with k <= key[i], and
\* num_keys when k is greater than every key.
C36_FindChildFirstNotBelow ==
  result.op = "internal_node_find_child" =>
    LET node == PageAt(pages, result.key)
        k == result.rows[1]
        index == result.rows[2]
        at_or_above == {i \in 0..(node.n - 1) : k <= internal_node_key(node, i)}
    IN KeysIncreasing(node) =>
         /\ at_or_above = {} => index = node.n
         /\ at_or_above # {} =>
              (index \in at_or_above /\ \A i \in at_or_above : index <= i)

\* A key equal to the middle separator of a node with three keys was looked
\* up and sent to the left of it.
C36_Witness ==
  /\ result.op = "internal_node_find_child"
  /\ PageAt(pages, result.key).n = INTERNAL_NODE_MAX_CELLS
  /\ result.rows[1] = internal_node_key(PageAt(pages, result.key), 1)
  /\ result.rows[2] = 1

\* C37: the pager only grows.  No step removes a page, the number that
\* get_unused_page_num returns is never one of an allocated page, no page
\* goes from internal back to leaf, and a page that changes its node type
\* is the root page, going from leaf to internal in the create_new_root of
\* an insert that found the root leaf full.
C37_PagerOnlyGrows ==
  /\ [](get_unused_page_num(pages) \notin 0..(Len(pages) - 1))
  /\ [][/\ Len(pages') >= Len(pages)
        /\ \A p \in 0..(Len(pages) - 1) :
             PageAt(pages', p).node_type # PageAt(pages, p).node_type =>
               /\ p = root_page_num
               /\ PageAt(pages, p).node_type = NodeLeaf
               /\ PageAt(pages', p).node_type = NodeInternal
               /\ result'.op = "insert"
               /\ PageAt(pages, p).n >= leaf_node_max_cells]_vars

\* The root page went from leaf to internal and the pager holds the pages
\* of two later splits.
C37_Witness ==
  /\ PageAt(pages, root_page_num).node_type = NodeInternal
  /\ Len(pages) = 5
  /\ InsertCompleted

\* C38: Pager::table_n_recs(), the sum of num_cells over the leaf pages, is
\* the number of insert_row calls that returned Ok.
C38_RecsCountInserts == table_n_recs(pages) = OkInserts

\* The leaf that Pager::get_node_max_key comes to from page p: the page at
\* the end of the right_child pointers; -1 when they leave the pager or
\* come to no leaf within as many steps as there are pages.
RECURSIVE RightmostLeaf(_, _)
RightmostLeaf(p, fuel) ==
  IF fuel = 0 \/ ~IsPage(p) THEN -1
  ELSE IF p \in LeafPages THEN p
  ELSE RightmostLeaf(PageAt(pages, p).link, fuel - 1)

\* C39: every insert_row call ends with Ok or an error, and on every tree
\* the inserts reach, the descent of get_node_max_key through right_child
\* comes to a leaf from every internal node: the right_child pointers have
\* no cycle and do not leave the pager.
C39_MaxKeyDescentEnds ==
  /\ result.op = "insert" => result.err.kind \in {"Ok", "Storage", "LockTable", "Encoding", "Schema", "Io"}
  /\ \A p \in InternalPages : RightmostLeaf(p, Len(pages)) \in LeafPages

\* The four bytes of a u32 that is written as a 32-bit integer.
U32Bytes(k) == IF k >= 0 THEN LeBytes(k, 4) ELSE Complement(LeBytes(-(k + 1), 4))

\* C40: the key of a row is its i64 primary value reduced modulo 2^32 (the
\* low four bytes); a row whose primary value differs from the one of a
\* stored row but has the same low four bytes is rejected as 'Duplicate
\* key' and leaves the table as it is; and the cells of a leaf are in the
\* order of the reduced keys.
C40_KeyIsValueMod32 ==
  [][InsertWide =>
       \E v \in {result'.rows[1]}, k \in {result'.key} :
         /\ U32Bytes(k) = SubSeq(v, 1, 4)
         /\ (k \in LeafKeys(root_page_num) /\ v # I64Of(k)) =>
              (result'.err = ErrDuplicate /\ pages' = pages)
         /\ \A i \in 0..(PageAt(pages', root_page_num).n - 2) :
              U32Less(leaf_node_key(PageAt(pages', root_page_num), i),
                      leaf_node_key(PageAt(pages', root_page_num), i + 1))]_vars

====
